---- MODULE Spec2Model ----
(***************************************************************************)
(* EduRAG evaluation harness: the metric functions of                      *)
(* tests/evaluation_metrics.py (RetrievalMetrics, GenerationMetrics,       *)
(* EvaluationReport).                                                      *)
(*                                                                         *)
(* The functions are static methods without state.  The state of the model *)
(* is one call: the operation called (op), its arguments (args), what it   *)
(* returned or raised (ret) and the optional-library scorers it invoked    *)
(* (calls).  Each action is one call, made by a caller that has made none  *)
(* yet (op = "idle"), with its arguments drawn from a bounded set; the     *)
(* call of evaluate_single_query is two steps, the second being the branch *)
(* that calls into the optional libraries.  What a call prints is stdout.  *)
(* A scorer can be called again by the same caller: calls then holds what  *)
(* the library did at the earlier calls and what they returned.            *)
(*                                                                         *)
(* run_evaluation.py's run_complete_evaluation is a second specification,  *)
(* SpecRun: pc is its position, locals its local variables, stdout what it *)
(* has printed; the backend (load_models, the vector store, the chain) is  *)
(* its environment and does what it does.                                  *)
(*                                                                         *)
(* Numbers: a Python float that the code computes as a quotient of two     *)
(* integers is the fraction <<n, d>> in lowest terms (d > 0); 0.5, 0.7 and *)
(* 0.9 are 1/2, 7/10 and 9/10.  Texts are sequences of one-character       *)
(* strings.  A dict is a function on its keys.                             *)
(***************************************************************************)
EXTENDS Integers, Sequences, FiniteSets, TLC

VARIABLES op, args, ret, calls, stdout, pc, locals

vars == <<op, args, ret, calls, stdout, pc, locals>>

\* the state of run_complete_evaluation, which the calls of Spec leave alone
runVars == <<pc, locals>>

(***************************************************************************)
(* Bounds of the model.                                                    *)
(***************************************************************************)
\* longest results list enumerated item by item
MaxDocs == 3
\* longest run of non-relevant items put in front of a results list
MaxPad == 11
\* k ranges over -MaxK .. MaxK (and the driver's 5 and 10)
MaxK == 4

(***************************************************************************)
(* Fractions.                                                              *)
(***************************************************************************)
RECURSIVE Gcd(_, _)
Gcd(a, b) == IF b = 0 THEN a ELSE Gcd(b, a % b)

\* n / d for integers n >= 0, d > 0, as Python's true division
Frac(n, d) == LET g == Gcd(n, d) IN <<n \div g, d \div g>>

RatLe(x, y) == x[1] * y[2] <= y[1] * x[2]

RatLt(x, y) == x[1] * y[2] < y[1] * x[2]

RatMul(x, y) == Frac(x[1] * y[1], x[2] * y[2])

RatAdd(x, y) == Frac(x[1] * y[2] + y[1] * x[2], x[2] * y[2])

RatSub(x, y) == Frac(x[1] * y[2] - y[1] * x[2], x[2] * y[2])

\* x / n for an integer n > 0
RatDivInt(x, n) == Frac(x[1], x[2] * n)

\* min(x, y) of two floats
RatMin(x, y) == IF RatLe(x, y) THEN x ELSE y

Zero == Frac(0, 1)

One == Frac(1, 1)

Half == Frac(1, 2)

InUnitInterval(x) == RatLe(Zero, x) /\ RatLe(x, One)

(***************************************************************************)
(* What a call leaves behind: a value, or an exception.                    *)
(***************************************************************************)
Return(v) == [exc |-> "none", val |-> v]

Raise(e) == [exc |-> e]

\* a call that has not returned yet, with the value it has computed so far
Running(v) == [exc |-> "running", val |-> v]

Returned(r) == r.exc = "none"

(***************************************************************************)
(* Python helpers.                                                         *)
(***************************************************************************)
\* seq[:k]: the first k items, all of them when k > len(seq); a negative k
\* counts from the end (all but the last -k items)
Slice(seq, k) ==
    LET n == Len(seq)
        stop == IF k < 0 THEN (IF n + k < 0 THEN 0 ELSE n + k)
                ELSE (IF k > n THEN n ELSE k)
    IN SubSeq(seq, 1, stop)

\* d.get(key, default)
Get(d, key, default) == IF key \in DOMAIN d THEN d[key] ELSE default

(***************************************************************************)
(* RetrievalMetrics                                                        *)
(***************************************************************************)
RECURSIVE MrrScan(_, _, _)
\* the loop of calculate_mrr from 1-indexed position rank on
MrrScan(results, relevant_key, rank) ==
    IF rank > Len(results) THEN Zero
    ELSE IF Get(results[rank], relevant_key, FALSE) THEN Frac(1, rank)
    ELSE MrrScan(results, relevant_key, rank + 1)

RECURSIVE MrrScanLast(_, _, _, _)
\* the loop without its early return: the last relevant rank wins
MrrScanLast(results, relevant_key, rank, found) ==
    IF rank > Len(results) THEN found
    ELSE MrrScanLast(results, relevant_key, rank + 1,
                     IF Get(results[rank], relevant_key, FALSE)
                     THEN Frac(1, rank) ELSE found)

\* mutant of calculate_mrr: no early return at the first relevant item
calculate_mrr_last(results, relevant_key) ==
    MrrScanLast(results, relevant_key, 1, Zero)

\* mutant of calculate_mrr: relevance is read under "is_relevant" whatever
\* relevant_key is
calculate_mrr_default_key(results, relevant_key) ==
    MrrScan(results, "is_relevant", 1)

calculate_mrr(results, relevant_key) == MrrScan(results, relevant_key, 1)

RECURSIVE HitScan(_, _, _)
\* the loop of calculate_hit_at_k over top_k from position i on
HitScan(top_k, relevant_key, i) ==
    IF i > Len(top_k) THEN Zero
    ELSE IF Get(top_k[i], relevant_key, FALSE) THEN One
    ELSE HitScan(top_k, relevant_key, i + 1)

\* mutant of calculate_hit_at_k: top_k = results[k-1:k], the k-th item alone
calculate_hit_at_k_kth(results, k, relevant_key) ==
    HitScan(IF k >= 1 /\ k <= Len(results) THEN <<results[k]>> ELSE <<>>,
            relevant_key, 1)

\* mutant of calculate_hit_at_k: the scan stops one item short of top_k
calculate_hit_at_k_short(results, k, relevant_key) ==
    LET top_k == Slice(results, k)
    IN HitScan(SubSeq(top_k, 1, Len(top_k) - 1), relevant_key, 1)

calculate_hit_at_k(results, k, relevant_key) ==
    HitScan(Slice(results, k), relevant_key, 1)

RECURSIVE CountRelevant(_, _)
\* sum(1 for r in top_k if r.get(relevant_key, False))
CountRelevant(top_k, relevant_key) ==
    IF top_k = <<>> THEN 0
    ELSE (IF Get(Head(top_k), relevant_key, FALSE) THEN 1 ELSE 0)
         + CountRelevant(Tail(top_k), relevant_key)

\* mutant of calculate_precision_at_k: divides by k, not by len(top_k), for
\* k >= 1 (a negative k is left as it is)
calculate_precision_at_k_by_k(results, k, relevant_key) ==
    IF results = <<>> \/ k = 0 THEN Return(Zero)
    ELSE LET top_k == Slice(results, k)
         IN IF Len(top_k) = 0 THEN Raise("ZeroDivisionError")
            ELSE IF k < 0
            THEN Return(Frac(CountRelevant(top_k, relevant_key), Len(top_k)))
            ELSE Return(Frac(CountRelevant(top_k, relevant_key), k))

\* mutant of calculate_precision_at_k: the guard forgets k == 0
calculate_precision_at_k_no_k0(results, k, relevant_key) ==
    IF results = <<>> THEN Return(Zero)
    ELSE LET top_k == Slice(results, k)
         IN IF Len(top_k) = 0 THEN Raise("ZeroDivisionError")
            ELSE Return(Frac(CountRelevant(top_k, relevant_key), Len(top_k)))

calculate_precision_at_k(results, k, relevant_key) ==
    IF results = <<>> \/ k = 0 THEN Return(Zero)
    ELSE LET top_k == Slice(results, k)
         IN IF Len(top_k) = 0 THEN Raise("ZeroDivisionError")
            ELSE Return(Frac(CountRelevant(top_k, relevant_key), Len(top_k)))

(***************************************************************************)
(* Text: str as a sequence of characters.                                  *)
(***************************************************************************)
LowerLetters ==
    {"a", "b", "c", "d", "e", "f", "g", "h", "i", "j", "k", "l", "m", "n",
     "o", "p", "q", "r", "s", "t", "u", "v", "w", "x", "y", "z"}

UpperLetters ==
    {"A", "B", "C", "D", "E", "F", "G", "H", "I", "J", "K", "L", "M", "N",
     "O", "P", "Q", "R", "S", "T", "U", "V", "W", "X", "Y", "Z"}

Digits == {"0", "1", "2", "3", "4", "5", "6", "7", "8", "9"}

\* the characters the regular expression \w matches
WordChars ==
    {"a", "b", "c", "d", "e", "f", "g", "h", "i", "j", "k", "l", "m", "n",
     "o", "p", "q", "r", "s", "t", "u", "v", "w", "x", "y", "z", "A", "B",
     "C", "D", "E", "F", "G", "H", "I", "J", "K", "L", "M", "N", "O", "P",
     "Q", "R", "S", "T", "U", "V", "W", "X", "Y", "Z", "0", "1", "2", "3",
     "4", "5", "6", "7", "8", "9", "_"}

\* the characters str.split() splits at
WhitespaceChars == {" ", "\t", "\n"}

\* punctuation: neither \w nor whitespace
PunctChars == {".", ",", "?", "-"}

NonWhitespaceChars ==
    {"a", "b", "c", "d", "e", "f", "g", "h", "i", "j", "k", "l", "m", "n",
     "o", "p", "q", "r", "s", "t", "u", "v", "w", "x", "y", "z", "A", "B",
     "C", "D", "E", "F", "G", "H", "I", "J", "K", "L", "M", "N", "O", "P",
     "Q", "R", "S", "T", "U", "V", "W", "X", "Y", "Z", "0", "1", "2", "3",
     "4", "5", "6", "7", "8", "9", "_", ".", ",", "?", "-"}

\* the lower-case letter of each upper-case letter
LowerMap ==
       ("A" :> "a") @@ ("B" :> "b") @@ ("C" :> "c") @@ ("D" :> "d")
     @@ ("E" :> "e") @@ ("F" :> "f") @@ ("G" :> "g") @@ ("H" :> "h")
     @@ ("I" :> "i") @@ ("J" :> "j") @@ ("K" :> "k") @@ ("L" :> "l")
     @@ ("M" :> "m") @@ ("N" :> "n") @@ ("O" :> "o") @@ ("P" :> "p")
     @@ ("Q" :> "q") @@ ("R" :> "r") @@ ("S" :> "s") @@ ("T" :> "t")
     @@ ("U" :> "u") @@ ("V" :> "v") @@ ("W" :> "w") @@ ("X" :> "x")
     @@ ("Y" :> "y") @@ ("Z" :> "z")

\* str.lower()
lower(s) == [i \in 1..Len(s) |-> IF s[i] \in UpperLetters THEN LowerMap[s[i]] ELSE s[i]]

Range(f) == { f[i] : i \in DOMAIN f }

RECURSIVE Scan(_, _, _, _, _)
\* the maximal runs of characters of class, in order, from position i on; cur
\* is the run being read and acc the runs already closed
Scan(s, class, i, cur, acc) ==
    LET closed == IF cur = <<>> THEN acc ELSE Append(acc, cur)
    IN IF i > Len(s) THEN closed
       ELSE IF s[i] \in class THEN Scan(s, class, i + 1, Append(cur, s[i]), acc)
       ELSE Scan(s, class, i + 1, <<>>, closed)

\* re.findall(r'\b\w+\b', s): the maximal runs of word characters
findall_words(s) == Scan(s, WordChars, 1, <<>>, <<>>)

\* str.split(): the maximal runs of non-whitespace characters
split(s) == Scan(s, NonWhitespaceChars, 1, <<>>, <<>>)

\* word in text: text holds word as a substring
Contains(text, word) ==
    \E p \in 0..(Len(text) - Len(word)) :
        \A j \in 1..Len(word) : text[p + j] = word[j]

RECURSIVE join(_, _)
\* sep.join(parts)
join(sep, parts) ==
    IF parts = <<>> THEN <<>>
    ELSE IF Len(parts) = 1 THEN parts[1]
    ELSE parts[1] \o sep \o join(sep, Tail(parts))

RECURSIVE ToStr(_)
\* a word as a string, to look it up in a set of strings
ToStr(w) == IF w = <<>> THEN "" ELSE Head(w) \o ToStr(Tail(w))

(***************************************************************************)
(* GenerationMetrics                                                       *)
(***************************************************************************)
faithfulness_stop_words ==
    {"the", "a", "an", "and", "or", "but", "in", "on", "at", "to", "for",
     "of", "with", "is", "are", "was", "were", "be", "been", "being",
     "have", "has", "had", "do", "does", "did", "will", "would", "could",
     "should", "may", "might", "can", "this", "that", "these", "those"}

\* mutant of relevancy_stop_words: the stop words of calculate_faithfulness
\* and the question words
relevancy_stop_words_superset ==
    faithfulness_stop_words
    \cup {"what", "how", "why", "when", "where", "who", "which", "explain",
          "describe", "discuss", "provide"}

relevancy_stop_words ==
    {"the", "a", "an", "and", "or", "but", "in", "on", "at", "to", "for",
     "of", "with", "is", "are", "was", "were", "be", "been", "being",
     "what", "how", "why", "when", "where", "who", "which", "explain",
     "describe", "discuss", "provide"}

\* words of length <= MinWordLen are dropped (len(w) > 3)
MinWordLen == 3

\* [w for w in re.findall(r'\b\w+\b', text_lower)
\*  if w not in stop_words and len(w) > 3]
ContentWords(text_lower, stop_words) ==
    SelectSeq(findall_words(text_lower),
              LAMBDA w : ToStr(w) \notin stop_words /\ Len(w) > MinWordLen)

\* sum(1 for word in words if word in text)
CountIn(words, text) == Len(SelectSeq(words, LAMBDA w : Contains(text, w)))

\* mutant of calculate_faithfulness: the 0.5 of a response without content
\* words is decided before the empty check
calculate_faithfulness_neutral_first(response, context) ==
    IF ContentWords(lower(response), faithfulness_stop_words) = <<>> THEN Half
    ELSE IF response = <<>> \/ context = <<>> THEN Zero
    ELSE Frac(CountIn(ContentWords(lower(response), faithfulness_stop_words),
                      lower(join(<<" ">>, context))),
              Len(ContentWords(lower(response), faithfulness_stop_words)))

\* mutant of calculate_faithfulness: each distinct word counts once
calculate_faithfulness_distinct(response, context) ==
    IF response = <<>> \/ context = <<>> THEN Zero
    ELSE LET context_text == lower(join(<<" ">>, context))
             words == Range(ContentWords(lower(response), faithfulness_stop_words))
         IN IF words = {} THEN Half
            ELSE Frac(Cardinality({ w \in words : Contains(context_text, w) }),
                      Cardinality(words))

calculate_faithfulness(response, context) ==
    IF response = <<>> \/ context = <<>> THEN Zero
    ELSE LET response_lower == lower(response)
             context_text == lower(join(<<" ">>, context))
             response_words == ContentWords(response_lower, faithfulness_stop_words)
         IN IF response_words = <<>> THEN Half
            ELSE LET grounded_words == CountIn(response_words, context_text)
                     faithfulness_score == Frac(grounded_words, Len(response_words))
                 IN RatMin(faithfulness_score, One)

\* len(response) < ShortResponseLen is penalised by 0.7
ShortResponseLen == 50

\* len(response) > LongResponseLen is penalised by 0.9
LongResponseLen == 1000

\* mutant of length_penalty: a response of exactly LongResponseLen characters
\* is penalised too
length_penalty_ge(response) ==
    IF Len(response) < ShortResponseLen THEN Frac(7, 10)
    ELSE IF Len(response) >= LongResponseLen THEN Frac(9, 10)
    ELSE One

length_penalty(response) ==
    IF Len(response) < ShortResponseLen THEN Frac(7, 10)
    ELSE IF Len(response) > LongResponseLen THEN Frac(9, 10)
    ELSE One

calculate_relevancy(query, response) ==
    IF query = <<>> \/ response = <<>> THEN Zero
    ELSE LET query_lower == lower(query)
             response_lower == lower(response)
             query_terms == ContentWords(query_lower, relevancy_stop_words)
         IN IF query_terms = <<>> THEN Half
            ELSE LET matching_terms == CountIn(query_terms, response_lower)
                     relevancy_score == Frac(matching_terms, Len(query_terms))
                     final_score == RatMul(relevancy_score, length_penalty(response))
                 IN RatMin(final_score, One)

\* mutant of calculate_response_length: the length in characters
calculate_response_length_chars(response) == Len(response)

\* len(response.split())
calculate_response_length(response) == Len(split(response))

(***************************************************************************)
(* Inputs of the retrieval metrics.                                        *)
(***************************************************************************)
\* the keys a caller may name as relevant_key
RelevantKeys == {"is_relevant", "label"}

\* retrieval results: with the flag set, cleared, absent, or under another key
Items ==
    { [content |-> "doc", is_relevant |-> TRUE],
      [content |-> "doc", is_relevant |-> FALSE],
      [content |-> "doc"],
      [content |-> "doc", label |-> TRUE] }

NotRelevant == [content |-> "doc", is_relevant |-> FALSE]

Relevant == [content |-> "doc", is_relevant |-> TRUE]

SeqsUpTo(S, n) == UNION { [1..m -> S] : m \in 0..n }

\* n non-relevant items
Pad(n) == [i \in 1..n |-> NotRelevant]

\* every list of at most MaxDocs items, and the lists of one item behind up
\* to MaxPad non-relevant ones (first relevant rank up to MaxPad + 1)
GeneratedLists ==
    SeqsUpTo(Items, MaxDocs)
    \cup { Pad(n) \o tail : n \in 0..MaxPad, tail \in SeqsUpTo(Items, 1) }

\* the lists of tests/test_retrieval.py (test_mrr_calculation, test_hit_at_k,
\* test_precision_at_k) and of the specification's scenarios
ScenarioLists ==
    { <<NotRelevant, Relevant, NotRelevant>>,
      <<NotRelevant, NotRelevant>>,
      <<NotRelevant, NotRelevant, Relevant, NotRelevant>>,
      <<Relevant, NotRelevant, Relevant, NotRelevant, Relevant>>,
      <<Relevant, Relevant, Relevant, NotRelevant, NotRelevant>> }

ResultLists == GeneratedLists \cup ScenarioLists

KValues == (-MaxK..MaxK) \cup {5, 10}

(***************************************************************************)
(* The optional-library scorers.  What the library does (an ImportError at *)
(* the import, an exception in the computation, or scores) is the          *)
(* environment's choice, lib.                                              *)
(***************************************************************************)
\* a line of stdout: what kind of line it is, its text or label, and the
\* formatted numbers it shows
Line(kind, text, cells) == [kind |-> kind, text |-> text, cells |-> cells]

\* what a scorer prints: a warning when the library fails, nothing otherwise
ScorerWarning(lib, not_installed, failed) ==
    IF lib.kind = "ok" THEN <<>>
    ELSE IF lib.kind = "ImportError" THEN <<Line("warning", not_installed, <<>>)>>
    ELSE <<Line("warning", failed, <<>>)>>

calculate_bertscore_prints(lib) ==
    ScorerWarning(lib,
        "Warning: bert-score not installed. Install with: pip install bert-score",
        "Warning: BERTScore calculation failed: {e}")

calculate_rouge_l_prints(lib) ==
    ScorerWarning(lib,
        "Warning: rouge-score not installed. Install with: pip install rouge-score",
        "Warning: ROUGE-L calculation failed: {e}")

calculate_bleu_score_prints(lib) ==
    ScorerWarning(lib,
        "Warning: nltk not installed. Install with: pip install nltk",
        "Warning: BLEU calculation failed: {e}")

\* mutant of ImportAtCall: a library that was not installed at an earlier
\* call is not imported again
ImportAtCallSticky(lib, earlier) ==
    IF \E p \in 1..Len(earlier) : earlier[p].lib.kind = "ImportError"
    THEN [kind |-> "ImportError"]
    ELSE lib

\* the import of a scorer (lines 94, 133, 172) is a statement of the
\* function's try block and the module keeps no variable: it runs at every
\* call, and what the call gets is what the library does at this call (lib),
\* whatever it did at the earlier calls (earlier)
ImportAtCall(lib, earlier) == lib

\* mutant of calculate_bertscore: the handler of 'except Exception' returns
\* the F1 alone
calculate_bertscore_f1_only(response, reference, lib) ==
    IF lib.kind = "ok"
    THEN [bertscore_precision |-> lib.p, bertscore_recall |-> lib.r,
          bertscore_f1 |-> lib.f]
    ELSE IF lib.kind = "ImportError"
    THEN [bertscore_precision |-> Zero, bertscore_recall |-> Zero,
          bertscore_f1 |-> Zero]
    ELSE [bertscore_f1 |-> Zero]

calculate_bertscore(response, reference, lib) ==
    IF lib.kind = "ok"
    THEN [bertscore_precision |-> lib.p, bertscore_recall |-> lib.r,
          bertscore_f1 |-> lib.f]
    ELSE IF lib.kind = "ImportError"
    THEN [bertscore_precision |-> Zero, bertscore_recall |-> Zero,
          bertscore_f1 |-> Zero]
    ELSE [bertscore_precision |-> Zero, bertscore_recall |-> Zero,
          bertscore_f1 |-> Zero]

calculate_rouge_l(response, reference, lib) ==
    IF lib.kind = "ok"
    THEN [rouge_l_precision |-> lib.p, rouge_l_recall |-> lib.r,
          rouge_l_f1 |-> lib.f]
    ELSE IF lib.kind = "ImportError"
    THEN [rouge_l_precision |-> Zero, rouge_l_recall |-> Zero,
          rouge_l_f1 |-> Zero]
    ELSE [rouge_l_precision |-> Zero, rouge_l_recall |-> Zero,
          rouge_l_f1 |-> Zero]

calculate_bleu_score(response, reference, lib) ==
    IF lib.kind = "ok" THEN lib.f
    ELSE IF lib.kind = "ImportError" THEN Zero
    ELSE Zero

(***************************************************************************)
(* EvaluationReport                                                        *)
(***************************************************************************)
\* reference: str = None
None == [some |-> FALSE]

Some(text) == [some |-> TRUE, text |-> text]

\* the truth value of an optional string: neither None nor ""
Truthy(reference) == reference.some /\ reference.text # <<>>

\* d.update(e)
Update(d, e) == [key \in DOMAIN d \cup DOMAIN e |->
                    IF key \in DOMAIN e THEN e[key] ELSE d[key]]

\* the default relevant_key and the two k of evaluate_single_query
DefaultRelevantKey == "is_relevant"

HitKLarge == 10

HitKSmall == 5

\* mutant of TakesAdvanced: 'reference is not None' for 'reference'
TakesAdvanced_not_none(reference, include_advanced) ==
    include_advanced /\ reference.some

\* whether evaluate_single_query takes its advanced branch
TakesAdvanced(reference, include_advanced) == include_advanced /\ Truthy(reference)

\* evaluate_single_query, the core metrics: the dict of lines 310-317
evaluate_single_query_core(query, response, context, retrieved_docs) ==
    ("mrr" :> calculate_mrr(retrieved_docs, DefaultRelevantKey))
    @@ ("hit@10" :> calculate_hit_at_k(retrieved_docs, HitKLarge,
                                       DefaultRelevantKey))
    @@ ("hit@5" :> calculate_hit_at_k(retrieved_docs, HitKSmall,
                                      DefaultRelevantKey))
    @@ ("faithfulness" :> calculate_faithfulness(response, context))
    @@ ("relevancy" :> calculate_relevancy(query, response))
    @@ ("response_length" :> calculate_response_length(response))

\* evaluate_single_query, the advanced branch (lines 319-331) on the dict
\* results of the core metrics: the record returned (record), the scorers
\* invoked, in order (invoked), and what they print (printed)
evaluate_single_query_advanced(results, response, reference, include_advanced, lib) ==
    IF TakesAdvanced(reference, include_advanced)
    THEN LET bertscore == calculate_bertscore(response, reference.text, lib.bert)
             rouge_l == calculate_rouge_l(response, reference.text, lib.rouge)
             bleu == calculate_bleu_score(response, reference.text, lib.bleu)
         IN [record |->
                Update(results,
                       ("bertscore_f1" :> Get(bertscore, "bertscore_f1", Zero))
                       @@ ("rouge_l_f1" :> Get(rouge_l, "rouge_l_f1", Zero))
                       @@ ("bleu" :> bleu)),
             invoked |-> <<"calculate_bertscore", "calculate_rouge_l",
                           "calculate_bleu_score">>,
             printed |-> calculate_bertscore_prints(lib.bert)
                         \o calculate_rouge_l_prints(lib.rouge)
                         \o calculate_bleu_score_prints(lib.bleu)]
    ELSE [record |-> results, invoked |-> <<>>, printed |-> <<>>]

\* aggregate_results: the six metrics always aggregated and the three added
\* when the first record has bertscore_f1
StandardMetrics ==
    <<"mrr", "hit@10", "hit@5", "faithfulness", "relevancy", "response_length">>

AdvancedMetrics == <<"bertscore_f1", "rouge_l_f1", "bleu">>

\* a dict without keys
EmptyDict == <<>>

\* the float of a metric value: response_length is an int, which r[metric] > 0
\* and numpy take as the same number
AsFloat(metric, value) ==
    IF metric = "response_length" THEN Frac(value, 1) ELSE value

RECURSIVE PositiveValuesKeepingZero(_, _)
\* mutant of PositiveValues: r[metric] >= 0 for r[metric] > 0
PositiveValuesKeepingZero(results, metric) ==
    IF results = <<>> THEN <<>>
    ELSE LET r == Head(results)
             rest == PositiveValuesKeepingZero(Tail(results), metric)
         IN IF metric \in DOMAIN r /\ RatLe(Zero, AsFloat(metric, r[metric]))
            THEN <<AsFloat(metric, r[metric])>> \o rest
            ELSE rest

RECURSIVE PositiveValues(_, _)
\* [r[metric] for r in results if metric in r and r[metric] > 0]
PositiveValues(results, metric) ==
    IF results = <<>> THEN <<>>
    ELSE LET r == Head(results)
             rest == PositiveValues(Tail(results), metric)
         IN IF metric \in DOMAIN r /\ RatLt(Zero, AsFloat(metric, r[metric]))
            THEN <<AsFloat(metric, r[metric])>> \o rest
            ELSE rest

RECURSIVE RatSum(_)
RatSum(values) ==
    IF values = <<>> THEN Zero ELSE RatAdd(Head(values), RatSum(Tail(values)))

\* np.mean(values) of a non-empty list
mean(values) == RatDivInt(RatSum(values), Len(values))

\* the square root of a fraction, kept as the fraction under the root
Sqrt(x) == [sqrt_of |-> x]

\* the squared deviations of the values from m
SquaredDeviations(values, m) ==
    [j \in 1..Len(values) |->
        RatMul(RatSub(values[j], m), RatSub(values[j], m))]

\* mutant of std: the sample standard deviation (divisor n - 1, and the
\* deviation of a single value from itself taken as it is)
std_sample(values) ==
    LET n == Len(values)
        squares == RatSum(SquaredDeviations(values, mean(values)))
    IN Sqrt(IF n = 1 THEN squares ELSE RatDivInt(squares, n - 1))

\* np.std(values) of a non-empty list: the population standard deviation
std(values) == Sqrt(mean(SquaredDeviations(values, mean(values))))

\* mutant of TrackedMetrics: any record with bertscore_f1 adds the three
TrackedMetricsAnyRecord(results) ==
    StandardMetrics
    \o (IF \E j \in 1..Len(results) : "bertscore_f1" \in DOMAIN results[j]
        THEN AdvancedMetrics ELSE <<>>)

\* the list metrics of aggregate_results (lines 345-349), results non-empty
TrackedMetrics(results) ==
    StandardMetrics
    \o (IF "bertscore_f1" \in DOMAIN results[1] THEN AdvancedMetrics ELSE <<>>)

RECURSIVE AggregateLoop(_, _, _)
\* the loop of lines 353-357 over the metrics left, on the dict aggregated
AggregateLoop(results, metrics, aggregated) ==
    IF metrics = <<>> THEN aggregated
    ELSE LET metric == Head(metrics)
             values == PositiveValues(results, metric)
         IN AggregateLoop(results, Tail(metrics),
                IF values # <<>>
                THEN Update(aggregated,
                            (("avg_" \o metric) :> mean(values))
                            @@ (("std_" \o metric) :> std(values)))
                ELSE aggregated)

aggregate_results(results) ==
    IF results = <<>> THEN EmptyDict
    ELSE AggregateLoop(results, TrackedMetrics(results), EmptyDict)

(***************************************************************************)
(* The tables.  stdout is the sequence of the lines printed, one per call  *)
(* of print; a number formatted with .4f or .0f is the pair of its digits  *)
(* (the number scaled by 10^digits and rounded half to even, as a float    *)
(* that is the fraction exactly is rounded) and the count of decimals.     *)
(***************************************************************************)
RECURSIVE Pow10(_)
Pow10(digits) == IF digits = 0 THEN 1 ELSE 10 * Pow10(digits - 1)

\* f"{x:.<digits>f}" of the float x
FormatFixed(x, digits) ==
    LET n == x[1] * Pow10(digits)
        q == n \div x[2]
        r == n - q * x[2]
    IN <<IF 2 * r > x[2] \/ (2 * r = x[2] /\ q % 2 = 1) THEN q + 1 ELSE q,
         digits>>

\* the decimals of the columns: .4f, and .0f for the length
ScoreDigits == 4

LengthDigits == 0

\* f"{result.get(key, 0):.<digits>f}"
FormatMetric(result, key, digits) ==
    FormatFixed(AsFloat(key, Get(result, key, IF key = "response_length"
                                                 THEN 0 ELSE Zero)),
                digits)

\* mutant of RowLabel: the default label counts from 0
RowLabelZeroBased(query_ids, j) ==
    IF Truthy(query_ids) /\ j - 1 < Len(query_ids.text)
    THEN query_ids.text[j]
    ELSE "Q" \o ToString(j - 1)

\* qid of the record at the 1-indexed position j (i = j - 1 in the code):
\* query_ids[i] if query_ids and i < len(query_ids) else f"Q{i+1}";
\* query_ids is None or Some(list)
RowLabel(query_ids, j) ==
    IF Truthy(query_ids) /\ j - 1 < Len(query_ids.text)
    THEN query_ids.text[j]
    ELSE "Q" \o ToString(j)

\* the lines before the rows of a table
TableHeader(title, columns) ==
    <<Line("banner", "\n====", <<>>), Line("title", title, <<>>),
      Line("rule", "====", <<>>), Line("columns", columns, <<>>),
      Line("separator", "----", <<>>)>>

\* the rows of print_evaluation_table (lines 376-383)
EvaluationRows(results, query_ids) ==
    [j \in 1..Len(results) |->
        Line("row", RowLabel(query_ids, j),
             <<FormatMetric(results[j], "mrr", ScoreDigits),
               FormatMetric(results[j], "hit@10", ScoreDigits),
               FormatMetric(results[j], "faithfulness", ScoreDigits),
               FormatMetric(results[j], "relevancy", ScoreDigits),
               FormatMetric(results[j], "response_length", LengthDigits)>>)]

\* what print_evaluation_table prints
print_evaluation_table(results, query_ids) ==
    IF results = <<>>
    THEN <<Line("placeholder", "No results to display.", <<>>)>>
    ELSE LET aggregated == aggregate_results(results)
         IN TableHeader("EVALUATION RESULTS - RAG SYSTEM PERFORMANCE",
                        "Query ID MRR Hit@10 Faithfulness Relevancy Length")
            \o EvaluationRows(results, query_ids)
            \o <<Line("separator", "----", <<>>),
                 Line("average", "AVERAGE",
                      <<FormatFixed(Get(aggregated, "avg_mrr", Zero), ScoreDigits),
                        FormatFixed(Get(aggregated, "avg_hit@10", Zero), ScoreDigits),
                        FormatFixed(Get(aggregated, "avg_faithfulness", Zero), ScoreDigits),
                        FormatFixed(Get(aggregated, "avg_relevancy", Zero), ScoreDigits),
                        FormatFixed(Get(aggregated, "avg_response_length", Zero),
                                    LengthDigits)>>),
                 Line("closing", "====\n", <<>>)>>

\* the rows of print_advanced_metrics_table (lines 419-426)
AdvancedRows(results, query_ids) ==
    [j \in 1..Len(results) |->
        Line("row", RowLabel(query_ids, j),
             <<FormatMetric(results[j], "bertscore_f1", ScoreDigits),
               FormatMetric(results[j], "rouge_l_f1", ScoreDigits),
               FormatMetric(results[j], "bleu", ScoreDigits),
               FormatMetric(results[j], "faithfulness", ScoreDigits),
               FormatMetric(results[j], "relevancy", ScoreDigits)>>)]

\* the metrics of the AVERAGE row of print_advanced_metrics_table (line 431)
AdvancedTableMetrics ==
    <<"bertscore_f1", "rouge_l_f1", "bleu", "faithfulness", "relevancy">>

\* the average that row shows for a metric (lines 433-443): the mean of the
\* positive values, 0 when there is none
AdvancedTableAverage(results, metric) ==
    LET values == PositiveValues(results, metric)
    IN FormatFixed(IF values # <<>> THEN mean(values) ELSE Zero, ScoreDigits)

\* has_advanced = any("bertscore_f1" in r for r in results)
has_advanced(results) ==
    \E j \in 1..Len(results) : "bertscore_f1" \in DOMAIN results[j]

\* what print_advanced_metrics_table prints
print_advanced_metrics_table(results, query_ids) ==
    IF results = <<>>
    THEN <<Line("placeholder", "No results to display.", <<>>)>>
    ELSE IF ~has_advanced(results)
    THEN <<Line("placeholder",
                "No advanced metrics found. Use include_advanced=True in evaluation.",
                <<>>)>>
    ELSE TableHeader("ADVANCED METRICS - NLG EVALUATION",
                     "Query ID BERTScore F1 ROUGE-L F1 BLEU Faithfulness Relevancy")
         \o AdvancedRows(results, query_ids)
         \o <<Line("separator", "----", <<>>),
              Line("average", "AVERAGE",
                   [c \in 1..Len(AdvancedTableMetrics) |->
                       AdvancedTableAverage(results, AdvancedTableMetrics[c])]),
              Line("closing", "====\n", <<>>)>>

(***************************************************************************)
(* Inputs of the generation metrics and of evaluate_single_query.          *)
(***************************************************************************)
\* a text is built of at most MaxPieces pieces (words and separators)
MaxPieces == 3

\* a context is a list of at most MaxPassages passages
MaxPassages == 2

\* "Paris"
W_Paris ==
    <<"P", "a", "r", "i", "s">>

\* "this"
W_this ==
    <<"t", "h", "i", "s">>

\* "with"
W_with ==
    <<"w", "i", "t", "h">>

\* "What"
W_What ==
    <<"W", "h", "a", "t">>

\* "cat"
W_cat ==
    <<"c", "a", "t">>

\* "city"
W_city ==
    <<"c", "i", "t", "y">>

\* "City"
W_City ==
    <<"C", "i", "t", "y">>

\* "comparison"
W_comparison ==
    <<"c", "o", "m", "p", "a", "r", "i", "s", "o", "n">>

\* "this cat"
T_ThisCat ==
    <<"t", "h", "i", "s", " ", "c", "a", "t">>

\* "The capital of France is Paris. It is located in the northern part of France."
T_FaithResponse ==
    <<"T", "h", "e", " ", "c", "a", "p", "i", "t", "a", "l", " ", "o", "f",
      " ", "F", "r", "a", "n", "c", "e", " ", "i", "s", " ", "P", "a", "r",
      "i", "s", ".", " ", "I", "t", " ", "i", "s", " ", "l", "o", "c", "a",
      "t", "e", "d", " ", "i", "n", " ", "t", "h", "e", " ", "n", "o", "r",
      "t", "h", "e", "r", "n", " ", "p", "a", "r", "t", " ", "o", "f", " ",
      "F", "r", "a", "n", "c", "e", ".">>

\* "Paris is the capital and largest city of France."
T_FaithContext1 ==
    <<"P", "a", "r", "i", "s", " ", "i", "s", " ", "t", "h", "e", " ", "c",
      "a", "p", "i", "t", "a", "l", " ", "a", "n", "d", " ", "l", "a", "r",
      "g", "e", "s", "t", " ", "c", "i", "t", "y", " ", "o", "f", " ", "F",
      "r", "a", "n", "c", "e", ".">>

\* "Paris is located in the north-central part of France."
T_FaithContext2 ==
    <<"P", "a", "r", "i", "s", " ", "i", "s", " ", "l", "o", "c", "a", "t",
      "e", "d", " ", "i", "n", " ", "t", "h", "e", " ", "n", "o", "r", "t",
      "h", "-", "c", "e", "n", "t", "r", "a", "l", " ", "p", "a", "r", "t",
      " ", "o", "f", " ", "F", "r", "a", "n", "c", "e", ".">>

\* "The capital of Germany is Berlin and it has a population of 4 million."
T_LowResponse ==
    <<"T", "h", "e", " ", "c", "a", "p", "i", "t", "a", "l", " ", "o", "f",
      " ", "G", "e", "r", "m", "a", "n", "y", " ", "i", "s", " ", "B", "e",
      "r", "l", "i", "n", " ", "a", "n", "d", " ", "i", "t", " ", "h", "a",
      "s", " ", "a", " ", "p", "o", "p", "u", "l", "a", "t", "i", "o", "n",
      " ", "o", "f", " ", "4", " ", "m", "i", "l", "l", "i", "o", "n", ".">>

\* "Paris is the capital of France."
T_LowContext1 ==
    <<"P", "a", "r", "i", "s", " ", "i", "s", " ", "t", "h", "e", " ", "c",
      "a", "p", "i", "t", "a", "l", " ", "o", "f", " ", "F", "r", "a", "n",
      "c", "e", ".">>

\* "London is the capital of United Kingdom."
T_LowContext2 ==
    <<"L", "o", "n", "d", "o", "n", " ", "i", "s", " ", "t", "h", "e", " ",
      "c", "a", "p", "i", "t", "a", "l", " ", "o", "f", " ", "U", "n", "i",
      "t", "e", "d", " ", "K", "i", "n", "g", "d", "o", "m", ".">>

\* "What is the capital of France?"
T_Query ==
    <<"W", "h", "a", "t", " ", "i", "s", " ", "t", "h", "e", " ", "c", "a",
      "p", "i", "t", "a", "l", " ", "o", "f", " ", "F", "r", "a", "n", "c",
      "e", "?">>

\* "The capital of France is Paris."
T_RelResponse ==
    <<"T", "h", "e", " ", "c", "a", "p", "i", "t", "a", "l", " ", "o", "f",
      " ", "F", "r", "a", "n", "c", "e", " ", "i", "s", " ", "P", "a", "r",
      "i", "s", ".">>

\* "The weather today is sunny and warm."
T_RelLowResponse ==
    <<"T", "h", "e", " ", "w", "e", "a", "t", "h", "e", "r", " ", "t", "o",
      "d", "a", "y", " ", "i", "s", " ", "s", "u", "n", "n", "y", " ", "a",
      "n", "d", " ", "w", "a", "r", "m", ".">>

\* "This is a test response with ten words in it."
T_TenWords ==
    <<"T", "h", "i", "s", " ", "i", "s", " ", "a", " ", "t", "e", "s", "t",
      " ", "r", "e", "s", "p", "o", "n", "s", "e", " ", "w", "i", "t", "h",
      " ", "t", "e", "n", " ", "w", "o", "r", "d", "s", " ", "i", "n", " ",
      "i", "t", ".">>

\* "Paris is the capital of France"
T_Reference ==
    <<"P", "a", "r", "i", "s", " ", "i", "s", " ", "t", "h", "e", " ", "c",
      "a", "p", "i", "t", "a", "l", " ", "o", "f", " ", "F", "r", "a", "n",
      "c", "e">>

SP == <<" ">>

DOT == <<".">>

\* the pieces of a response: a capitalised content word, a stop word longer
\* than 3, a word of 3 letters, a word of 4, and two separators
ResponsePieces == {W_Paris, W_this, W_cat, W_city, SP, DOT}

\* the pieces of a query: a question word, a stop word of both sets, a stop
\* word of calculate_faithfulness alone, a content word, a short word
QueryPieces == {W_What, W_with, W_this, W_Paris, W_cat, SP}

\* the texts built of at most n of the pieces
TextsOf(pieces, n) == { join(<<>>, ps) : ps \in SeqsUpTo(pieces, n) }

\* the responses of the tests (tests/test_generation.py)
ScenarioResponses == {T_FaithResponse, T_LowResponse, T_RelResponse,
                      T_RelLowResponse, T_TenWords}

Responses == TextsOf(ResponsePieces, MaxPieces) \cup ScenarioResponses

Passages == {<<>>, W_comparison, W_cat, W_City}

ScenarioContexts == { <<T_FaithContext1, T_FaithContext2>>,
                      <<T_LowContext1, T_LowContext2>> }

Contexts == SeqsUpTo(Passages, MaxPassages) \cup ScenarioContexts

Queries == TextsOf(QueryPieces, MaxPieces) \cup {T_Query}

\* text, filled with spaces up to n characters
PadText(text, n) == text \o [i \in 1..(n - Len(text)) |-> " "]

\* the lengths at the two thresholds of the length penalty
ThresholdLengths ==
    {ShortResponseLen - 1, ShortResponseLen, LongResponseLen, LongResponseLen + 1}

BaseResponses == {W_Paris, T_ThisCat, T_RelResponse, T_RelLowResponse}

\* the responses calculate_relevancy is called with: "", the base responses,
\* and each of them at each threshold length
RelevancyResponses ==
    {<<>>} \cup BaseResponses
    \cup { PadText(t, n) : t \in BaseResponses, n \in ThresholdLengths }

\* what a library call can do: fail at the import, fail in the computation,
\* or score
LibOutcomes ==
    { [kind |-> "ImportError"], [kind |-> "Exception"],
      [kind |-> "ok", p |-> Zero, r |-> Zero, f |-> Zero],
      [kind |-> "ok", p |-> Frac(1, 2), r |-> One, f |-> Frac(2, 3)] }

Libs == [bert : LibOutcomes, rouge : LibOutcomes, bleu : LibOutcomes]

References == {None, Some(<<>>), Some(T_Reference)}

\* the reference a scorer is called with: a str
ScorerReferences == {<<>>, T_Reference}

EvalQueries == {<<>>, T_Query}

EvalResponses == {<<>>, T_RelResponse, T_TenWords, T_FaithResponse}

EvalContexts == {<<>>, <<T_FaithContext1, T_FaithContext2>>}

\* retrieved_docs: up to MaxPad non-relevant items, then at most one item
EvalDocs == { Pad(n) \o tail : n \in 0..MaxPad, tail \in SeqsUpTo(Items, 1) }

(***************************************************************************)
(* Inputs of aggregate_results and of the tables: lists of records.        *)
(***************************************************************************)
\* the longest list of records
MaxRecords == 3

\* the core metrics of a query answered well
CoreGood ==
    ("mrr" :> One) @@ ("hit@10" :> One) @@ ("hit@5" :> One)
    @@ ("faithfulness" :> Frac(6, 7)) @@ ("relevancy" :> Frac(7, 10))
    @@ ("response_length" :> 6)

\* the core metrics of a query whose first relevant document has rank 6
CoreFair ==
    ("mrr" :> Frac(1, 6)) @@ ("hit@10" :> One) @@ ("hit@5" :> Zero)
    @@ ("faithfulness" :> Half) @@ ("relevancy" :> Frac(1, 2))
    @@ ("response_length" :> 10)

\* the core metrics of an empty response to an empty retrieval
CoreZero ==
    ("mrr" :> Zero) @@ ("hit@10" :> Zero) @@ ("hit@5" :> Zero)
    @@ ("faithfulness" :> Zero) @@ ("relevancy" :> Zero)
    @@ ("response_length" :> 0)

AdvancedGood ==
    ("bertscore_f1" :> Frac(2, 3)) @@ ("rouge_l_f1" :> Half)
    @@ ("bleu" :> Frac(1, 4))

\* the advanced metrics of failed scorers
AdvancedZero ==
    ("bertscore_f1" :> Zero) @@ ("rouge_l_f1" :> Zero) @@ ("bleu" :> Zero)

\* a BERTScore below zero
AdvancedNegative ==
    ("bertscore_f1" :> Frac(-1, 4)) @@ ("rouge_l_f1" :> Zero)
    @@ ("bleu" :> Half)

\* records as evaluate_single_query returns them, and two that lack keys
Records ==
    { CoreGood, CoreFair, CoreZero,
      CoreGood @@ AdvancedGood, CoreFair @@ AdvancedZero,
      CoreZero @@ AdvancedNegative,
      ("mrr" :> Frac(1, 3)),
      ("bertscore_f1" :> Frac(2, 3)) }

RecordLists == SeqsUpTo(Records, MaxRecords)

\* query_ids: None, an empty list, a list of two ids, a list of five
QueryIdLists ==
    {None, Some(<<>>), Some(<<"Q2", "Q1">>),
     Some(<<"Q2", "Q1", "Q5", "Q3", "Q4">>)}

(***************************************************************************)
(* The calls.                                                              *)
(***************************************************************************)
NoArgs == [none |-> TRUE]

\* run_complete_evaluation is not running: it has no local variables
NoLocals == [none |-> TRUE]

Init ==
    /\ op = "idle"
    /\ args = NoArgs
    /\ ret = Return(Zero)
    /\ calls = <<>>
    /\ stdout = <<>>
    /\ pc = "none"
    /\ locals = NoLocals

CallMrr ==
    /\ op = "idle"
    /\ \E results \in ResultLists, relevant_key \in RelevantKeys :
        /\ op' = "calculate_mrr"
        /\ args' = [results |-> results, relevant_key |-> relevant_key]
        /\ ret' = Return(calculate_mrr(results, relevant_key))
        /\ calls' = <<>>
        /\ UNCHANGED <<stdout, runVars>>

CallHitAtK ==
    /\ op = "idle"
    /\ \E results \in ResultLists, k \in KValues, relevant_key \in RelevantKeys :
        /\ op' = "calculate_hit_at_k"
        /\ args' = [results |-> results, k |-> k, relevant_key |-> relevant_key]
        /\ ret' = Return(calculate_hit_at_k(results, k, relevant_key))
        /\ calls' = <<>>
        /\ UNCHANGED <<stdout, runVars>>

CallPrecisionAtK ==
    /\ op = "idle"
    /\ \E results \in ResultLists, k \in KValues, relevant_key \in RelevantKeys :
        /\ op' = "calculate_precision_at_k"
        /\ args' = [results |-> results, k |-> k, relevant_key |-> relevant_key]
        /\ ret' = calculate_precision_at_k(results, k, relevant_key)
        /\ calls' = <<>>
        /\ UNCHANGED <<stdout, runVars>>

CallFaithfulness ==
    /\ op = "idle"
    /\ \E response \in Responses, context \in Contexts :
        /\ op' = "calculate_faithfulness"
        /\ args' = [response |-> response, context |-> context]
        /\ ret' = Return(calculate_faithfulness(response, context))
        /\ calls' = <<>>
        /\ UNCHANGED <<stdout, runVars>>

CallRelevancy ==
    /\ op = "idle"
    /\ \E query \in Queries, response \in RelevancyResponses :
        /\ op' = "calculate_relevancy"
        /\ args' = [query |-> query, response |-> response]
        /\ ret' = Return(calculate_relevancy(query, response))
        /\ calls' = <<>>
        /\ UNCHANGED <<stdout, runVars>>

CallResponseLength ==
    /\ op = "idle"
    /\ \E response \in Responses :
        /\ op' = "calculate_response_length"
        /\ args' = [response |-> response]
        /\ ret' = Return(calculate_response_length(response))
        /\ calls' = <<>>
        /\ UNCHANGED <<stdout, runVars>>

\* evaluate_single_query is called and computes the core metrics
CallEvaluateSingleQuery ==
    /\ op = "idle"
    /\ \E query \in EvalQueries, response \in EvalResponses,
          context \in EvalContexts, retrieved_docs \in EvalDocs,
          reference \in References, include_advanced \in BOOLEAN :
        /\ op' = "evaluate_single_query"
        /\ args' = [query |-> query, response |-> response,
                    context |-> context, retrieved_docs |-> retrieved_docs,
                    reference |-> reference,
                    include_advanced |-> include_advanced]
        /\ ret' = Running(evaluate_single_query_core(query, response, context,
                                                     retrieved_docs))
        /\ calls' = <<>>
        /\ UNCHANGED <<stdout, runVars>>

\* evaluate_single_query goes through its advanced branch, where the
\* libraries do what they do, and returns
ReturnEvaluateSingleQuery ==
    /\ op = "evaluate_single_query"
    /\ ret.exc = "running"
    /\ \E lib \in Libs :
        LET r == evaluate_single_query_advanced(ret.val, args.response,
                                                args.reference,
                                                args.include_advanced, lib)
        IN /\ ret' = Return(r.record)
           /\ calls' = r.invoked
           /\ stdout' = stdout \o r.printed
    /\ UNCHANGED <<op, args, runVars>>

CallBertscore ==
    /\ op = "idle"
    /\ \E response \in EvalResponses, reference \in ScorerReferences,
          lib \in LibOutcomes :
        /\ op' = "calculate_bertscore"
        /\ args' = [response |-> response, reference |-> reference, lib |-> lib]
        /\ ret' = Return(calculate_bertscore(response, reference, lib))
        /\ calls' = <<>>
        /\ stdout' = calculate_bertscore_prints(lib)
        /\ UNCHANGED runVars

CallRougeL ==
    /\ op = "idle"
    /\ \E response \in EvalResponses, reference \in ScorerReferences,
          lib \in LibOutcomes :
        /\ op' = "calculate_rouge_l"
        /\ args' = [response |-> response, reference |-> reference, lib |-> lib]
        /\ ret' = Return(calculate_rouge_l(response, reference, lib))
        /\ calls' = <<>>
        /\ stdout' = calculate_rouge_l_prints(lib)
        /\ UNCHANGED runVars

CallBleuScore ==
    /\ op = "idle"
    /\ \E response \in EvalResponses, reference \in ScorerReferences,
          lib \in LibOutcomes :
        /\ op' = "calculate_bleu_score"
        /\ args' = [response |-> response, reference |-> reference, lib |-> lib]
        /\ ret' = Return(calculate_bleu_score(response, reference, lib))
        /\ calls' = <<>>
        /\ stdout' = calculate_bleu_score_prints(lib)
        /\ UNCHANGED runVars

\* the number of further calls of a scorer by the same caller
MaxRepeats == 2

\* one more call of calculate_bertscore, with the same texts
RepeatBertscore ==
    /\ op = "calculate_bertscore"
    /\ Len(calls) < MaxRepeats
    /\ \E lib \in LibOutcomes :
        LET earlier == Append(calls, [lib |-> args.lib, val |-> ret.val])
            got == ImportAtCall(lib, earlier)
        IN /\ args' = [args EXCEPT !.lib = lib]
           /\ ret' = Return(calculate_bertscore(args.response, args.reference, got))
           /\ calls' = earlier
           /\ stdout' = stdout \o calculate_bertscore_prints(got)
           /\ UNCHANGED <<op, runVars>>

\* one more call of calculate_rouge_l, with the same texts
RepeatRougeL ==
    /\ op = "calculate_rouge_l"
    /\ Len(calls) < MaxRepeats
    /\ \E lib \in LibOutcomes :
        LET earlier == Append(calls, [lib |-> args.lib, val |-> ret.val])
            got == ImportAtCall(lib, earlier)
        IN /\ args' = [args EXCEPT !.lib = lib]
           /\ ret' = Return(calculate_rouge_l(args.response, args.reference, got))
           /\ calls' = earlier
           /\ stdout' = stdout \o calculate_rouge_l_prints(got)
           /\ UNCHANGED <<op, runVars>>

\* one more call of calculate_bleu_score, with the same texts
RepeatBleuScore ==
    /\ op = "calculate_bleu_score"
    /\ Len(calls) < MaxRepeats
    /\ \E lib \in LibOutcomes :
        LET earlier == Append(calls, [lib |-> args.lib, val |-> ret.val])
            got == ImportAtCall(lib, earlier)
        IN /\ args' = [args EXCEPT !.lib = lib]
           /\ ret' = Return(calculate_bleu_score(args.response, args.reference, got))
           /\ calls' = earlier
           /\ stdout' = stdout \o calculate_bleu_score_prints(got)
           /\ UNCHANGED <<op, runVars>>

CallPrintEvaluationTable ==
    /\ op = "idle"
    /\ \E results \in RecordLists, query_ids \in QueryIdLists :
        /\ op' = "print_evaluation_table"
        /\ args' = [results |-> results, query_ids |-> query_ids]
        /\ ret' = Return(None)
        /\ calls' = <<>>
        /\ stdout' = print_evaluation_table(results, query_ids)
        /\ UNCHANGED runVars

CallPrintAdvancedMetricsTable ==
    /\ op = "idle"
    /\ \E results \in RecordLists, query_ids \in QueryIdLists :
        /\ op' = "print_advanced_metrics_table"
        /\ args' = [results |-> results, query_ids |-> query_ids]
        /\ ret' = Return(None)
        /\ calls' = <<>>
        /\ stdout' = print_advanced_metrics_table(results, query_ids)
        /\ UNCHANGED runVars

CallAggregateResults ==
    /\ op = "idle"
    /\ \E results \in RecordLists :
        /\ op' = "aggregate_results"
        /\ args' = [results |-> results]
        /\ ret' = Return(aggregate_results(results))
        /\ calls' = <<>>
        /\ UNCHANGED <<stdout, runVars>>

Next ==
    \/ CallMrr
    \/ CallHitAtK
    \/ CallPrecisionAtK
    \/ CallFaithfulness
    \/ CallRelevancy
    \/ CallBleuScore
    \/ CallEvaluateSingleQuery
    \/ ReturnEvaluateSingleQuery
    \/ CallBertscore
    \/ CallRougeL
    \/ CallAggregateResults
    \/ CallPrintEvaluationTable
    \/ CallPrintAdvancedMetricsTable
    \/ CallResponseLength
    \/ RepeatBertscore
    \/ RepeatRougeL
    \/ RepeatBleuScore

Spec == Init /\ [][Next]_vars

(***************************************************************************)
(* run_evaluation.py: run_complete_evaluation.                             *)
(*                                                                         *)
(* pc is the statement about to run, locals the local variables, calls the *)
(* calls made so far to the backend and to evaluate_single_query, each     *)
(* with its outcome.  load_models, the vector store's search and           *)
(* query_documents are the environment: each returns a value, raises an    *)
(* Exception, or is interrupted from the keyboard.                         *)
(***************************************************************************)
\* the number of test queries taken of tests/test_queries.py
MaxQueries == 3

\* f"Q{n}"
QueryId(n) == "Q" \o ToString(n)

\* the ids of tests/test_queries.py and tests/reference_answers.py: Q1..Q15
NumTestQueries == 15

\* TEST_QUERIES, its first MaxQueries items; the text of a query is
\* abbreviated to one question
TEST_QUERIES == [n \in 1..MaxQueries |-> [id |-> QueryId(n), query |-> T_Query]]

\* REFERENCE_ANSWERS has an answer (abbreviated) for each of Q1..Q15
ReferenceAnswerIds == { QueryId(n) : n \in 1..NumTestQueries }

\* get_reference_answer: REFERENCE_ANSWERS.get(query_id, "")
get_reference_answer(query_id) ==
    IF query_id \in ReferenceAnswerIds THEN T_Reference ELSE <<>>

\* a local variable that is not bound yet
Unbound == [unbound |-> TRUE]

\* a call and how it ended: "ok", "Exception" or "KeyboardInterrupt"; value
\* is what the call returned (None for load_models and for a call that
\* raised)
Call(fn, query_id, outcome, value) ==
    [fn |-> fn, query_id |-> query_id, outcome |-> outcome, value |-> value]

\* how a call of the backend can end without a value
Failures == { [kind |-> "Exception"], [kind |-> "KeyboardInterrupt"] }

LoadOutcomes == Failures \cup { [kind |-> "ok"] }

\* a (doc, score) pair of similarity_search_with_score
Retrieved(page_content) == [page_content |-> page_content, score |-> Half]

\* what the vector store returns: nothing, or four documents of which the
\* last two are off the topic
RetrievedLists ==
    { <<>>,
      <<Retrieved(T_FaithContext1), Retrieved(T_FaithContext2),
        Retrieved(T_LowContext1), Retrieved(T_LowContext2)>> }

RetrievalOutcomes ==
    Failures \cup { [kind |-> "ok", value |-> docs] : docs \in RetrievedLists }

\* what query_documents returns: a response, or no str at all
GeneratedResponses == {None, Some(T_RelResponse)}

GenerationOutcomes ==
    Failures \cup { [kind |-> "ok", value |-> r] : r \in GeneratedResponses }

\* what the scorer libraries do during an evaluation: all score, or none is
\* installed
RunLibs ==
    { [bert |-> lib, rouge |-> lib, bleu |-> lib] :
        lib \in { [kind |-> "ImportError"],
                  [kind |-> "ok", p |-> Frac(1, 2), r |-> One, f |-> Frac(2, 3)] } }

EvaluationOutcomes ==
    { [kind |-> "KeyboardInterrupt"] } \cup { [kind |-> "ok", lib |-> lib] : lib \in RunLibs }

\* the local variables when run_complete_evaluation is entered
EntryLocals ==
    [i |-> Unbound, query |-> Unbound, query_id |-> Unbound,
     retrieved_docs |-> Unbound, response |-> Unbound, context |-> Unbound,
     retrieved_with_relevance |-> Unbound, reference |-> Unbound,
     evaluation |-> Unbound, results |-> Unbound, query_ids |-> Unbound,
     aggregated |-> Unbound]

\* the number of top documents taken as context and marked relevant
TopDocs == 3

\* context = [doc.page_content for doc, score in retrieved_docs[:3]]
ContextOf(retrieved_docs) ==
    LET top == Slice(retrieved_docs, TopDocs)
    IN [j \in 1..Len(top) |-> top[j].page_content]

\* mutant of WithRelevance: the documents after the top ones are the
\* relevant ones
WithRelevanceBelowTop(retrieved_docs) ==
    [j \in 1..Len(retrieved_docs) |->
        [content |-> retrieved_docs[j].page_content,
         score |-> retrieved_docs[j].score,
         is_relevant |-> j - 1 >= TopDocs]]

\* retrieved_with_relevance of lines 67-74; i of the code is j - 1
WithRelevance(retrieved_docs) ==
    [j \in 1..Len(retrieved_docs) |->
        [content |-> retrieved_docs[j].page_content,
         score |-> retrieved_docs[j].score,
         is_relevant |-> j - 1 < TopDocs]]

\* reference = get_reference_answer(query_id) if include_advanced else None
ReferenceFor(query_id, include_advanced) ==
    IF include_advanced THEN Some(get_reference_answer(query_id)) ELSE None

\* evaluate_single_query as line 80 calls it: what it returns (val), or the
\* AttributeError of response.split() when response is no str, after what
\* it has invoked and printed
EvaluateQuery(l, include_advanced, lib) ==
    IF ~l.response.some THEN Raise("AttributeError")
    ELSE LET core == evaluate_single_query_core(l.query, l.response.text,
                                                 l.context,
                                                 l.retrieved_with_relevance)
             r == evaluate_single_query_advanced(core, l.response.text,
                                                 l.reference, include_advanced,
                                                 lib)
         IN [exc |-> "none", val |-> r.record, printed |-> r.printed]

\* the decimals of the progress line
ProgressDigits == 3

\* the progress line of lines 93-100
ProgressLine(evaluation, reference, include_advanced) ==
    Line("result", "MRR Faithfulness",
         <<FormatMetric(evaluation, "mrr", ProgressDigits),
           FormatMetric(evaluation, "faithfulness", ProgressDigits),
           IF include_advanced /\ Truthy(reference)
           THEN FormatMetric(evaluation, "bertscore_f1", ProgressDigits)
           ELSE FormatMetric(evaluation, "relevancy", ProgressDigits)>>)

\* mutant of AppendTo: the list holds one shared item, so that every entry is
\* the item appended last
AppendShared(list, item) == [j \in 1..(Len(list) + 1) |-> item]

\* list.append(item)
AppendTo(list, item) == Append(list, item)

\* mutant of AfterQueryException: the handler records the id of the query
\* that failed
AfterQueryExceptionAppendsId(l) ==
    [pc |-> "loop", locals |-> [l EXCEPT !.query_ids = Append(@, l.query_id)]]

\* mutant of AfterQueryException: break for continue
AfterQueryExceptionBreak(l) == [pc |-> "report", locals |-> l]

\* the handler of lines 102-104: the loop goes on with the next query and
\* the local variables are as they were
AfterQueryException(l) == [pc |-> "loop", locals |-> l]

\* mutant of AfterLoadException: the handler does not return
AfterLoadExceptionFallsThrough(l) ==
    [pc |-> "loop", ret |-> Running(None),
     locals |-> [l EXCEPT !.results = <<>>, !.query_ids = <<>>, !.i = 0]]

\* the handler of lines 37-43: run_complete_evaluation returns (None)
AfterLoadException(l) == [pc |-> "done", ret |-> Return(None), locals |-> l]

\* f"{aggregated.get(key, 0):.<digits>f}" of a std_ entry; the standard
\* deviation stays under its root
FormatStd(aggregated, key, digits) ==
    [value |-> Get(aggregated, key, Sqrt(Zero)), digits |-> digits]

\* f"{aggregated.get('avg_<metric>', 0):.4f} ± {aggregated.get('std_<metric>', 0):.4f}"
StatisticsLine(aggregated, metric, digits) ==
    Line("statistics", metric,
         <<FormatFixed(Get(aggregated, "avg_" \o metric, Zero), digits),
           FormatStd(aggregated, "std_" \o metric, digits)>>)

\* the prints of lines 117-136
DetailedStatistics(results, aggregated, include_advanced) ==
    <<Line("statistics", "DETAILED STATISTICS", <<>>),
      Line("statistics", "=", <<>>),
      Line("statistics", "Number of queries evaluated", <<Len(results)>>),
      Line("statistics", "Retrieval Metrics", <<>>),
      StatisticsLine(aggregated, "mrr", ScoreDigits),
      StatisticsLine(aggregated, "hit@10", ScoreDigits),
      StatisticsLine(aggregated, "hit@5", ScoreDigits),
      Line("statistics", "Generation Metrics", <<>>),
      StatisticsLine(aggregated, "faithfulness", ScoreDigits),
      StatisticsLine(aggregated, "relevancy", ScoreDigits),
      StatisticsLine(aggregated, "response_length", LengthDigits)>>
    \o (IF include_advanced
        THEN <<Line("statistics", "Advanced NLG Metrics", <<>>),
               StatisticsLine(aggregated, "bertscore_f1", ScoreDigits),
               StatisticsLine(aggregated, "rouge_l_f1", ScoreDigits),
               StatisticsLine(aggregated, "bleu", ScoreDigits)>>
        ELSE <<>>)
    \o <<Line("statistics", "=", <<>>)>>

\* the thresholds of lines 147-163: 0.7 and 0.5
ExcellentFrom == Frac(7, 10)

GoodFrom == Frac(1, 2)

\* the if/elif/else of lines 147-152, 154-159 and 161-166
Verdict(avg) ==
    IF RatLe(ExcellentFrom, avg) THEN "Excellent"
    ELSE IF RatLe(GoodFrom, avg) THEN "Good"
    ELSE "Needs Improvement"

\* the prints of lines 139-167
Interpretation(aggregated) ==
    <<Line("interpretation", "INTERPRETATION", <<>>),
      Line("interpretation", "=", <<>>),
      Line("interpretation", "FAITHFULNESS",
           <<Verdict(Get(aggregated, "avg_faithfulness", Zero))>>),
      Line("interpretation", "RELEVANCY",
           <<Verdict(Get(aggregated, "avg_relevancy", Zero))>>),
      Line("interpretation", "RETRIEVAL",
           <<Verdict(Get(aggregated, "avg_mrr", Zero))>>),
      Line("interpretation", "=", <<>>)>>

\* the prints of lines 27-32
Banner(include_advanced) ==
    <<Line("banner", "=", <<>>), Line("banner", "EDURAG SYSTEM EVALUATION", <<>>)>>
    \o (IF include_advanced
        THEN <<Line("banner", "(with Advanced Metrics: BERTScore, ROUGE-L, BLEU)", <<>>)>>
        ELSE <<>>)
    \o <<Line("banner", "=", <<>>), Line("loading", "Loading models...", <<>>)>>

\* the prints of lines 38-42
LoadDiagnostic ==
    <<Line("load_error", "Error loading models", <<>>),
      Line("hint", "Make sure you have:", <<>>),
      Line("hint", "1. Run 'python ingest.py' to create the vector database", <<>>),
      Line("hint", "2. Set GOOGLE_API_KEY in your .env file", <<>>),
      Line("hint", "3. Installed all requirements: pip install -r requirements.txt", <<>>)>>

\* a KeyboardInterrupt is no Exception: no handler of run_complete_evaluation
\* catches it and the call ends with it
Interrupted(fn, query_id) ==
    /\ calls' = Append(calls, Call(fn, query_id, "KeyboardInterrupt", None))
    /\ ret' = Raise("KeyboardInterrupt")
    /\ pc' = "done"
    /\ UNCHANGED <<op, args, stdout, locals>>

\* an Exception inside the try of lines 56-100: the handler of lines 102-104
QueryFailed(fn, handler) ==
    /\ calls' = Append(calls, Call(fn, locals.query_id, "Exception", None))
    /\ stdout' = Append(stdout, Line("error", "Error", <<locals.query_id>>))
    /\ pc' = handler.pc
    /\ locals' = handler.locals
    /\ UNCHANGED <<op, args, ret>>

InitRun ==
    /\ op = "run_complete_evaluation"
    /\ args \in { [include_advanced |-> b] : b \in BOOLEAN }
    /\ ret = Running(None)
    /\ calls = <<>>
    /\ stdout = <<>>
    /\ pc = "start"
    /\ locals = EntryLocals

\* lines 27-32
RunStart ==
    /\ pc = "start"
    /\ stdout' = stdout \o Banner(args.include_advanced)
    /\ pc' = "load_models"
    /\ UNCHANGED <<op, args, ret, calls, locals>>

\* lines 34-48: load_models() and what follows it
RunLoadModels ==
    /\ pc = "load_models"
    /\ \E o \in LoadOutcomes :
        CASE o.kind = "KeyboardInterrupt" -> Interrupted("load_models", None)
          [] o.kind = "Exception" ->
                LET after == AfterLoadException(locals)
                IN /\ calls' = Append(calls, Call("load_models", None, "Exception", None))
                   /\ stdout' = stdout \o LoadDiagnostic
                   /\ pc' = after.pc
                   /\ ret' = after.ret
                   /\ locals' = after.locals
                   /\ UNCHANGED <<op, args>>
          [] OTHER ->
                /\ calls' = Append(calls, Call("load_models", None, "ok", None))
                /\ stdout' = stdout \o <<Line("loaded", "Models loaded successfully", <<>>),
                                         Line("evaluating", "Evaluating test queries",
                                              <<Len(TEST_QUERIES)>>)>>
                /\ locals' = [locals EXCEPT !.results = <<>>, !.query_ids = <<>>, !.i = 0]
                /\ pc' = "loop"
                /\ UNCHANGED <<op, args, ret>>

\* lines 50-54: the for statement takes the next item of TEST_QUERIES, or
\* ends the loop; locals.i counts the items taken
RunNextQuery ==
    /\ pc = "loop"
    /\ IF locals.i < Len(TEST_QUERIES)
       THEN LET query_data == TEST_QUERIES[locals.i + 1]
            IN /\ locals' = [locals EXCEPT !.i = locals.i + 1,
                                           !.query = query_data.query,
                                           !.query_id = query_data.id]
               /\ stdout' = Append(stdout, Line("progress", "Processing",
                                                <<locals.i + 1, Len(TEST_QUERIES),
                                                  query_data.id>>))
               /\ pc' = "retrieve"
       ELSE /\ pc' = "report"
            /\ UNCHANGED <<stdout, locals>>
    /\ UNCHANGED <<op, args, ret, calls>>

\* line 58
RunRetrieve ==
    /\ pc = "retrieve"
    /\ \E o \in RetrievalOutcomes :
        CASE o.kind = "KeyboardInterrupt" ->
                Interrupted("similarity_search_with_score", locals.query_id)
          [] o.kind = "Exception" ->
                QueryFailed("similarity_search_with_score", AfterQueryException(locals))
          [] OTHER ->
                /\ calls' = Append(calls, Call("similarity_search_with_score",
                                               locals.query_id, "ok", o.value))
                /\ locals' = [locals EXCEPT !.retrieved_docs = o.value]
                /\ pc' = "generate"
                /\ UNCHANGED <<op, args, ret, stdout>>

\* line 61
RunGenerate ==
    /\ pc = "generate"
    /\ \E o \in GenerationOutcomes :
        CASE o.kind = "KeyboardInterrupt" ->
                Interrupted("query_documents", locals.query_id)
          [] o.kind = "Exception" ->
                QueryFailed("query_documents", AfterQueryException(locals))
          [] OTHER ->
                /\ calls' = Append(calls, Call("query_documents", locals.query_id,
                                               "ok", o.value))
                /\ locals' = [locals EXCEPT !.response = o.value]
                /\ pc' = "evaluate"
                /\ UNCHANGED <<op, args, ret, stdout>>

\* lines 64-87: context, retrieved_with_relevance and reference are built
\* and evaluate_single_query is called
RunEvaluate ==
    /\ pc = "evaluate"
    /\ \E o \in EvaluationOutcomes :
        LET prepared == [locals EXCEPT
                            !.context = ContextOf(locals.retrieved_docs),
                            !.retrieved_with_relevance =
                                WithRelevance(locals.retrieved_docs),
                            !.reference = ReferenceFor(locals.query_id,
                                                       args.include_advanced)]
        IN CASE o.kind = "KeyboardInterrupt" ->
                    /\ Interrupted("evaluate_single_query", locals.query_id)
             [] OTHER ->
                    LET r == EvaluateQuery(prepared, args.include_advanced, o.lib)
                    IN IF r.exc # "none"
                       THEN QueryFailed("evaluate_single_query",
                                        AfterQueryException(prepared))
                       ELSE /\ calls' = Append(calls, Call("evaluate_single_query",
                                                           locals.query_id, "ok",
                                                           r.val))
                            /\ stdout' = stdout \o r.printed
                            /\ locals' = [prepared EXCEPT !.evaluation = r.val]
                            /\ pc' = "append_result"
                            /\ UNCHANGED <<op, args, ret>>

\* line 89
RunAppendResult ==
    /\ pc = "append_result"
    /\ locals' = [locals EXCEPT !.results = AppendTo(locals.results, locals.evaluation)]
    /\ pc' = "append_id"
    /\ UNCHANGED <<op, args, ret, calls, stdout>>

\* lines 90-100
RunAppendId ==
    /\ pc = "append_id"
    /\ locals' = [locals EXCEPT !.query_ids = Append(locals.query_ids, locals.query_id)]
    /\ stdout' = Append(stdout, ProgressLine(locals.evaluation, locals.reference,
                                             args.include_advanced))
    /\ pc' = "loop"
    /\ UNCHANGED <<op, args, ret, calls>>

\* lines 107-112
RunReport ==
    /\ pc = "report"
    /\ stdout' = Append(stdout, Line("blank", "", <<>>))
                 \o print_evaluation_table(locals.results, Some(locals.query_ids))
                 \o (IF args.include_advanced
                     THEN print_advanced_metrics_table(locals.results,
                                                       Some(locals.query_ids))
                     ELSE <<>>)
    /\ pc' = "statistics"
    /\ UNCHANGED <<op, args, ret, calls, locals>>

\* lines 115-169
RunStatistics ==
    /\ pc = "statistics"
    /\ LET aggregated == aggregate_results(locals.results)
       IN /\ locals' = [locals EXCEPT !.aggregated = aggregated]
          /\ stdout' = stdout
                       \o DetailedStatistics(locals.results, aggregated,
                                             args.include_advanced)
                       \o Interpretation(aggregated)
          /\ ret' = Return(<<locals.results, aggregated>>)
    /\ pc' = "done"
    /\ UNCHANGED <<op, args, calls>>

\* line 179: the outcome of  results, aggregated = value
Unpack(value) ==
    IF value = None THEN Raise("TypeError")
    ELSE IF Len(value) # 2 THEN Raise("ValueError")
    ELSE Return(value)

\* lines 180-185
Completed(advanced) ==
    <<Line("complete", "Evaluation complete!", <<>>),
      Line("hint", "To run individual tests, use: pytest tests/ -v", <<>>),
      Line("hint", "To run only fast tests, use: pytest tests/ -m 'not slow' -v", <<>>)>>
    \o (IF ~advanced
        THEN <<Line("hint", "To include advanced metrics (BERTScore, ROUGE-L, BLEU), run:", <<>>),
               Line("hint", "  python run_evaluation.py --advanced", <<>>)>>
        ELSE <<>>)

\* lines 178-191: what the command line prints for an outcome of
\* run_complete_evaluation
MainPrints(outcome, advanced) ==
    LET raised == IF outcome.exc = "none" THEN Unpack(outcome.val).exc
                  ELSE outcome.exc
    IN IF raised = "none" THEN Completed(advanced)
       ELSE IF raised = "KeyboardInterrupt"
       THEN <<Line("interrupted", "Evaluation interrupted by user", <<>>)>>
       ELSE <<Line("failed", "Evaluation failed", <<raised>>)>>

\* lines 172-193: the command line, once run_complete_evaluation is over
Main ==
    /\ pc = "done"
    /\ op = "run_complete_evaluation"
    /\ op' = "__main__"
    /\ stdout' = stdout \o MainPrints(ret, args.include_advanced)
    /\ UNCHANGED <<args, ret, calls, pc, locals>>

NextRun ==
    \/ RunStart
    \/ RunLoadModels
    \/ RunNextQuery
    \/ RunRetrieve
    \/ RunGenerate
    \/ RunEvaluate
    \/ RunAppendResult
    \/ RunAppendId
    \/ RunReport
    \/ RunStatistics
    \/ Main

SpecRun == InitRun /\ [][NextRun]_vars

(***************************************************************************)
(* Claims.                                                                 *)
(***************************************************************************)
\* the 1-indexed ranks of the relevant items of a results list
RelevantRanks(results, relevant_key) ==
    { r \in 1..Len(results) : Get(results[r], relevant_key, FALSE) }

\* C1: calculate_mrr returns 1/r* for the smallest rank r* whose item is
\* relevant and 0.0 when no item is relevant (the empty list included); the
\* relevant items after the first change nothing, so the value is in
\* {0} \cup {1/r : r = 1..len(results)}.
C1_MrrIsReciprocalOfFirstRelevantRank ==
    op = "calculate_mrr" =>
        LET R == RelevantRanks(args.results, args.relevant_key)
        IN /\ Returned(ret)
           /\ R = {} => ret.val = <<0, 1>>
           /\ R # {} => \E r \in R : (\A q \in R : r <= q) /\ ret.val = <<1, r>>
           /\ ret.val \in {<<0, 1>>} \cup { <<1, r>> : r \in 1..Len(args.results) }

\* a list with several relevant items, the first of them not at rank 1
C1_Witness ==
    /\ op = "calculate_mrr"
    /\ Cardinality(RelevantRanks(args.results, args.relevant_key)) >= 2
    /\ 1 \notin RelevantRanks(args.results, args.relevant_key)
    /\ ret.val = <<1, 2>>

\* whether one of the first k items is relevant (none when k <= 0)
AnyRelevantInFirst(results, k, relevant_key) ==
    \E i \in 1..k : i <= Len(results) /\ Get(results[i], relevant_key, FALSE)

\* C2 as stated: for every results list and every k, calculate_hit_at_k is 1.0
\* if one of the first k items is relevant and 0.0 otherwise.
C2_Original ==
    op = "calculate_hit_at_k" =>
        /\ Returned(ret)
        /\ ret.val = IF AnyRelevantInFirst(args.results, args.k, args.relevant_key)
                     THEN <<1, 1>> ELSE <<0, 1>>

\* C2, amended: for every results list and every k >= 0, calculate_hit_at_k
\* is 1.0 if one of the first k items is relevant and 0.0 otherwise, and a k
\* larger than len(results) examines the whole list without error.
C2_HitAtKForNonNegativeK ==
    (op = "calculate_hit_at_k" /\ args.k >= 0) =>
        /\ Returned(ret)
        /\ ret.val = IF AnyRelevantInFirst(args.results, args.k, args.relevant_key)
                     THEN <<1, 1>> ELSE <<0, 1>>

\* a k beyond the end of a list whose only relevant item is the last one
C2_Witness ==
    /\ op = "calculate_hit_at_k"
    /\ args.k > Len(args.results)
    /\ RelevantRanks(args.results, args.relevant_key) = {Len(args.results)}
    /\ Len(args.results) >= 2
    /\ ret.val = <<1, 1>>

\* C3 as stated: for all integers k1 <= k2, hit@k1 <= hit@k2.
C3_Original ==
    op = "calculate_hit_at_k" =>
        \A k2 \in KValues :
            args.k <= k2 =>
                RatLe(ret.val,
                      calculate_hit_at_k(args.results, k2, args.relevant_key))

\* C3, amended: for a fixed results list and all integers 0 <= k1 <= k2,
\* hit@k1 <= hit@k2.
C3_HitAtKMonotoneForNonNegativeK ==
    (op = "calculate_hit_at_k" /\ args.k >= 0) =>
        \A k2 \in KValues :
            args.k <= k2 =>
                RatLe(ret.val,
                      calculate_hit_at_k(args.results, k2, args.relevant_key))

\* a hit at k1 >= 1 on a list that goes on after k1
C3_Witness ==
    /\ op = "calculate_hit_at_k"
    /\ args.k >= 1
    /\ args.k < Len(args.results)
    /\ ret.val = <<1, 1>>
    /\ \E k2 \in KValues : k2 > args.k

\* C4: for a non-empty results list and k >= 1, calculate_precision_at_k is
\* the number of relevant items among the first k divided by the number of
\* items of that prefix, and lies in [0, 1].
C4_PrecisionIsRelevantShareOfPrefix ==
    (op = "calculate_precision_at_k" /\ args.results # <<>> /\ args.k >= 1) =>
        LET n == IF args.k > Len(args.results) THEN Len(args.results) ELSE args.k
            hits == { r \in RelevantRanks(args.results, args.relevant_key) : r <= n }
        IN /\ Returned(ret)
           /\ ret.val[1] * n = Cardinality(hits) * ret.val[2]
           /\ ret.val[2] > 0
           /\ 0 <= ret.val[1] /\ ret.val[1] <= ret.val[2]

\* the scenario of the tests: 3 relevant of 5 with k = 5 gives 0.6
C4_Witness ==
    /\ op = "calculate_precision_at_k"
    /\ args.results = <<Relevant, Relevant, Relevant, NotRelevant, NotRelevant>>
    /\ args.k = 5
    /\ args.relevant_key = "is_relevant"
    /\ ret = Return(<<3, 5>>)

\* C5: calculate_precision_at_k returns exactly 0.0 and never raises whenever
\* k = 0 or results is empty, whatever the other argument.
C5_PrecisionZeroOnEmptyOrK0 ==
    (op = "calculate_precision_at_k" /\ (args.k = 0 \/ args.results = <<>>)) =>
        ret = Return(<<0, 1>>)

\* k = 0 on a list that holds relevant items
C5_Witness ==
    /\ op = "calculate_precision_at_k"
    /\ args.k = 0
    /\ RelevantRanks(args.results, args.relevant_key) # {}
    /\ ret = Return(<<0, 1>>)

\* the positions at which a maximal run of characters of class starts in s
RunStarts(s, class) ==
    { i \in 1..Len(s) : s[i] \in class /\ (i = 1 \/ s[i - 1] \notin class) }

\* the maximal run of characters of class that starts at position i of s
RunAt(s, class, i) ==
    SubSeq(s, i, CHOOSE j \in i..Len(s) :
                     /\ \A m \in i..j : s[m] \in class
                     /\ (j = Len(s) \/ s[j + 1] \notin class))

\* the positions of the content-word occurrences of a lower-cased text: the
\* words that are no stop word and have more than 3 characters
ContentOccurrences(text_lower, stop_words) ==
    { i \in RunStarts(text_lower, WordChars) :
        LET w == RunAt(text_lower, WordChars, i)
        IN Len(w) > 3 /\ ToStr(w) \notin stop_words }

\* the occurrences among occ whose word is a substring of text
OccurrencesIn(occ, words_text, text) ==
    { i \in occ :
        LET w == RunAt(words_text, WordChars, i)
        IN \E p \in 1..(Len(text) - Len(w) + 1) :
               SubSeq(text, p, p + Len(w) - 1) = w }

\* C6: calculate_faithfulness and calculate_relevancy return a value in
\* [0.0, 1.0]; calculate_faithfulness returns 0.0 when response or context is
\* empty and calculate_relevancy returns 0.0 when query or response is empty,
\* also when the text has no content word (the empty check comes before the
\* 0.5 placeholder).
C6_ScoresInUnitIntervalAndZeroOnEmpty ==
    /\ op = "calculate_faithfulness" =>
           /\ Returned(ret)
           /\ 0 <= ret.val[1] /\ ret.val[1] <= ret.val[2] /\ ret.val[2] > 0
           /\ (args.response = <<>> \/ args.context = <<>>) => ret.val = <<0, 1>>
    /\ op = "calculate_relevancy" =>
           /\ Returned(ret)
           /\ 0 <= ret.val[1] /\ ret.val[1] <= ret.val[2] /\ ret.val[2] > 0
           /\ (args.query = <<>> \/ args.response = <<>>) => ret.val = <<0, 1>>

\* an empty context with a non-empty response that has no content word
C6_Witness ==
    /\ op = "calculate_faithfulness"
    /\ args.context = <<>>
    /\ args.response # <<>>
    /\ ContentOccurrences(lower(args.response), faithfulness_stop_words) = {}
    /\ ret = Return(<<0, 1>>)

\* C7: for non-empty response and context, calculate_faithfulness returns 0.5
\* when the response has no content word, and otherwise the number of
\* content-word occurrences of the response that are a substring of the
\* lower-cased, space-joined context divided by the number of content-word
\* occurrences of the response (a repeated word counts once per occurrence).
C7_FaithfulnessIsGroundedShare ==
    (op = "calculate_faithfulness" /\ args.response # <<>> /\ args.context # <<>>) =>
        LET response_lower == lower(args.response)
            context_text == lower(join(<<" ">>, args.context))
            occ == ContentOccurrences(response_lower, faithfulness_stop_words)
            grounded == OccurrencesIn(occ, response_lower, context_text)
        IN /\ Returned(ret)
           /\ occ = {} => ret.val = <<1, 2>>
           /\ occ # {} =>
                 /\ ret.val[2] > 0
                 /\ ret.val[1] * Cardinality(occ) = Cardinality(grounded) * ret.val[2]

\* the response of test_faithfulness_score_calculation: 7 content-word
\* occurrences ("france" twice), 6 of them in the context
C7_Witness ==
    /\ op = "calculate_faithfulness"
    /\ args.response = T_FaithResponse
    /\ args.context = <<T_FaithContext1, T_FaithContext2>>
    /\ ret = Return(<<6, 7>>)

\* C8: for non-empty query and response, calculate_relevancy returns 0.5 (no
\* length penalty) when the query has no content word, and otherwise the share
\* of the query's content-word occurrences that are a substring of the
\* lower-cased response, times a length penalty: 0.7 for a response of fewer
\* than 50 characters, 0.9 for more than 1000, 1.0 for 50..1000.
C8_RelevancyIsMatchedShareTimesPenalty ==
    (op = "calculate_relevancy" /\ args.query # <<>> /\ args.response # <<>>) =>
        LET query_lower == lower(args.query)
            occ == ContentOccurrences(query_lower, relevancy_stop_words)
            matched == OccurrencesIn(occ, query_lower, lower(args.response))
            n == Len(args.response)
            penalty == IF n < 50 THEN <<7, 10>>
                       ELSE IF n > 1000 THEN <<9, 10>>
                       ELSE <<1, 1>>
        IN /\ Returned(ret)
           /\ occ = {} => ret.val = <<1, 2>>
           /\ occ # {} =>
                 /\ ret.val[2] > 0
                 /\ ret.val[1] * Cardinality(occ) * penalty[2]
                        = Cardinality(matched) * penalty[1] * ret.val[2]

\* a response of exactly 1000 characters that holds every query term
C8_Witness ==
    /\ op = "calculate_relevancy"
    /\ Len(args.response) = 1000
    /\ ContentOccurrences(lower(args.query), relevancy_stop_words) # {}
    /\ ret = Return(<<1, 1>>)

CoreKeys == {"mrr", "hit@10", "hit@5", "faithfulness", "relevancy", "response_length"}

AdvancedKeys == {"bertscore_f1", "rouge_l_f1", "bleu"}

\* include_advanced is true and reference is neither None nor ""
AdvancedRequested ==
    /\ args.include_advanced
    /\ args.reference # None
    /\ args.reference # Some(<<>>)

\* C9: the record evaluate_single_query returns has exactly the six core keys
\* when include_advanced is false or reference is None or empty, and exactly
\* those plus bertscore_f1, rouge_l_f1 and bleu when include_advanced is true
\* and reference is non-empty; the scorers are invoked in the latter case only.
C9_RecordKeysFollowAdvancedRequest ==
    op = "evaluate_single_query" =>
        /\ Returned(ret) =>
               DOMAIN ret.val = IF AdvancedRequested
                                THEN CoreKeys \cup AdvancedKeys ELSE CoreKeys
        /\ calls # <<>> => AdvancedRequested
        /\ (Returned(ret) /\ AdvancedRequested) =>
               calls = <<"calculate_bertscore", "calculate_rouge_l",
                         "calculate_bleu_score">>

\* include_advanced with an empty reference: six keys, no scorer invoked
C9_Witness ==
    /\ op = "evaluate_single_query"
    /\ Returned(ret)
    /\ args.include_advanced
    /\ args.reference = Some(<<>>)
    /\ DOMAIN ret.val = CoreKeys
    /\ calls = <<>>

\* the number of whitespace-delimited words of a text
WordCount(text) == Cardinality(RunStarts(text, NonWhitespaceChars))

\* C10: in every record evaluate_single_query returns, mrr, hit@10, hit@5,
\* faithfulness and relevancy lie in [0, 1], hit@10 and hit@5 are 0.0 or 1.0,
\* and response_length is the number of whitespace-delimited words of the
\* response, a non-negative integer.
C10_RecordValuesInRange ==
    (op = "evaluate_single_query" /\ Returned(ret)) =>
        /\ \A key \in {"mrr", "hit@10", "hit@5", "faithfulness", "relevancy"} :
               /\ ret.val[key][2] > 0
               /\ 0 <= ret.val[key][1]
               /\ ret.val[key][1] <= ret.val[key][2]
        /\ ret.val["hit@10"] \in {<<0, 1>>, <<1, 1>>}
        /\ ret.val["hit@5"] \in {<<0, 1>>, <<1, 1>>}
        /\ ret.val["response_length"] \in Nat
        /\ ret.val["response_length"] = WordCount(args.response)

\* the ten-word response of test_response_length_calculation, behind
\* retrieved documents whose first relevant one is at a rank between 6 and 10
C10_Witness ==
    /\ op = "evaluate_single_query"
    /\ Returned(ret)
    /\ args.response = T_TenWords
    /\ ret.val["response_length"] = 10
    /\ ret.val["hit@5"] = <<0, 1>>
    /\ ret.val["hit@10"] = <<1, 1>>

\* the positions of the records that hold metric with a value above zero
Qualifying(results, metric) ==
    { j \in 1..Len(results) :
        /\ metric \in DOMAIN results[j]
        /\ IF metric = "response_length" THEN results[j][metric] > 0
           ELSE results[j][metric][1] > 0 }

StandardMetricNames ==
    {"mrr", "hit@10", "hit@5", "faithfulness", "relevancy", "response_length"}

AdvancedMetricNames == {"bertscore_f1", "rouge_l_f1", "bleu"}

\* the metrics aggregate_results tracks for a non-empty list: the standard
\* ones, and the advanced ones when the first record has bertscore_f1
TrackedNames(results) ==
    StandardMetricNames
    \cup (IF "bertscore_f1" \in DOMAIN results[1]
          THEN AdvancedMetricNames ELSE {})

\* whether the dict aggregated has the pair avg_<metric>, std_<metric>
HasPair(aggregated, metric) ==
    /\ ("avg_" \o metric) \in DOMAIN aggregated
    /\ ("std_" \o metric) \in DOMAIN aggregated

\* whether the dict aggregated has neither avg_<metric> nor std_<metric>
HasNeither(aggregated, metric) ==
    /\ ("avg_" \o metric) \notin DOMAIN aggregated
    /\ ("std_" \o metric) \notin DOMAIN aggregated

\* C11: aggregate_results returns {} for an empty list and never raises on a
\* record that lacks a key; for a tracked metric it emits the pair
\* avg_<metric>, std_<metric> if and only if some record holds that key with
\* a value strictly above zero, and emits neither key otherwise.
C11_PairEmittedIffSomeValuePositive ==
    op = "aggregate_results" =>
        /\ Returned(ret)
        /\ args.results = <<>> => ret.val = <<>>
        /\ args.results # <<>> =>
              \A metric \in TrackedNames(args.results) :
                  IF Qualifying(args.results, metric) # {}
                  THEN HasPair(ret.val, metric)
                  ELSE HasNeither(ret.val, metric)

\* a list with a record that lacks hit@5 and a record whose hit@5 is 0.0, and
\* no other hit@5: the pair of mrr is emitted, that of hit@5 is not
C11_Witness ==
    /\ op = "aggregate_results"
    /\ \E j \in 1..Len(args.results) : "hit@5" \notin DOMAIN args.results[j]
    /\ \E j \in 1..Len(args.results) :
           /\ "hit@5" \in DOMAIN args.results[j]
           /\ args.results[j]["hit@5"] = <<0, 1>>
    /\ Returned(ret)
    /\ HasPair(ret.val, "mrr")
    /\ HasNeither(ret.val, "hit@5")

RECURSIVE SumOver(_, _, _)
\* the sum of the values of metric in the records at the positions J
SumOver(results, metric, J) ==
    IF J = {} THEN <<0, 1>>
    ELSE LET j == CHOOSE x \in J : TRUE
         IN RatAdd(AsFloat(metric, results[j][metric]),
                   SumOver(results, metric, J \ {j}))

RECURSIVE SumSquaresOver(_, _, _, _)
\* the sum of the squared differences between m and those values
SumSquaresOver(results, metric, J, m) ==
    IF J = {} THEN <<0, 1>>
    ELSE LET j == CHOOSE x \in J : TRUE
             dev == RatSub(AsFloat(metric, results[j][metric]), m)
         IN RatAdd(RatMul(dev, dev),
                   SumSquaresOver(results, metric, J \ {j}, m))

\* C12: for every metric aggregate_results emits, avg_<metric> is the sum of
\* the strictly positive values of the metric divided by their number n, and
\* std_<metric> is the square root of the sum of their squared differences
\* from that mean divided by n (0 for a single value); values of zero count
\* neither in the sum nor in n, and every avg_<metric> is strictly positive.
C12_MeanAndPopulationStdOfPositiveValues ==
    (op = "aggregate_results" /\ Returned(ret)) =>
        \A metric \in StandardMetricNames \cup AdvancedMetricNames :
            ("avg_" \o metric) \in DOMAIN ret.val =>
                LET J == Qualifying(args.results, metric)
                    n == Cardinality(J)
                    avg == ret.val["avg_" \o metric]
                    sd == ret.val["std_" \o metric]
                IN /\ n >= 1
                   /\ RatMul(avg, <<n, 1>>) = SumOver(args.results, metric, J)
                   /\ DOMAIN sd = {"sqrt_of"}
                   /\ RatMul(sd.sqrt_of, <<n, 1>>)
                          = SumSquaresOver(args.results, metric, J, avg)
                   /\ n = 1 => sd.sqrt_of = <<0, 1>>
                   /\ avg[1] > 0 /\ avg[2] > 0

\* mrr 1.0, 1/6 and 0.0: the mean of the two positive values is 7/12 and
\* their population standard deviation 5/12
C12_Witness ==
    /\ op = "aggregate_results"
    /\ Len(args.results) = 3
    /\ \E j \in 1..3 : "mrr" \in DOMAIN args.results[j]
                       /\ args.results[j]["mrr"] = <<0, 1>>
    /\ Returned(ret)
    /\ "avg_mrr" \in DOMAIN ret.val
    /\ ret.val["avg_mrr"] = <<7, 12>>
    /\ ret.val["std_mrr"] = [sqrt_of |-> <<25, 144>>]

\* C13: aggregate_results aggregates bertscore_f1, rouge_l_f1 and bleu if and
\* only if the first record has the key bertscore_f1: when it lacks the key no
\* avg_ or std_ entry of an advanced metric is emitted, whatever the later
\* records hold; when it has the key, each advanced metric is aggregated as the
\* others are (its pair emitted iff some record holds a positive value), and
\* the records that lack advanced keys raise no error.
C13_AdvancedFollowFirstRecord ==
    (op = "aggregate_results" /\ args.results # <<>>) =>
        /\ Returned(ret)
        /\ \A metric \in AdvancedMetricNames :
              IF "bertscore_f1" \in DOMAIN args.results[1]
                 /\ Qualifying(args.results, metric) # {}
              THEN HasPair(ret.val, metric)
              ELSE HasNeither(ret.val, metric)

\* the first record lacks bertscore_f1 and a later one has a positive one
C13_Witness ==
    /\ op = "aggregate_results"
    /\ Len(args.results) >= 2
    /\ "bertscore_f1" \notin DOMAIN args.results[1]
    /\ Qualifying(args.results, "bertscore_f1") # {}
    /\ Returned(ret)
    /\ \A metric \in AdvancedMetricNames : HasNeither(ret.val, metric)

\* the first record has bertscore_f1 and a later one lacks every advanced key
C13_WitnessSkipped ==
    /\ op = "aggregate_results"
    /\ Len(args.results) >= 2
    /\ "bertscore_f1" \in DOMAIN args.results[1]
    /\ \E j \in 2..Len(args.results) :
           DOMAIN args.results[j] \cap AdvancedMetricNames = {}
    /\ Returned(ret)
    /\ HasPair(ret.val, "bertscore_f1")

\* whether the library call of a scorer failed
LibraryFailed == args.lib.kind \in {"ImportError", "Exception"}

\* C14: calculate_bertscore, calculate_rouge_l and calculate_bleu_score return
\* whatever the library does: on an ImportError or any other Exception the
\* first returns bertscore_precision, bertscore_recall and bertscore_f1 all
\* 0.0, the second rouge_l_precision, rouge_l_recall and rouge_l_f1 all 0.0,
\* the third 0.0; on every path the two mappings have all three of their keys.
C14_ScorersDegradeToZero ==
    /\ op = "calculate_bertscore" =>
           /\ Returned(ret)
           /\ DOMAIN ret.val
                  = {"bertscore_precision", "bertscore_recall", "bertscore_f1"}
           /\ LibraryFailed => \A key \in DOMAIN ret.val : ret.val[key] = <<0, 1>>
    /\ op = "calculate_rouge_l" =>
           /\ Returned(ret)
           /\ DOMAIN ret.val
                  = {"rouge_l_precision", "rouge_l_recall", "rouge_l_f1"}
           /\ LibraryFailed => \A key \in DOMAIN ret.val : ret.val[key] = <<0, 1>>
    /\ op = "calculate_bleu_score" =>
           /\ Returned(ret)
           /\ LibraryFailed => ret.val = <<0, 1>>

\* calculate_bertscore on a library that raises in the computation
C14_Witness ==
    /\ op = "calculate_bertscore"
    /\ args.lib.kind = "Exception"
    /\ ret = Return([bertscore_precision |-> <<0, 1>>,
                     bertscore_recall |-> <<0, 1>>,
                     bertscore_f1 |-> <<0, 1>>])
    /\ Len(stdout) = 1

\* the positions of the lines of a kind in what was printed
LinesOfKind(out, kind) == { p \in 1..Len(out) : out[p].kind = kind }

\* the label of the row of the record at position j (i = j - 1): query_ids[i]
\* when query_ids is supplied and i < len(query_ids), Q{i+1} otherwise
ExpectedLabel(query_ids, j) ==
    IF query_ids # None /\ j - 1 < Len(query_ids.text)
    THEN query_ids.text[j]
    ELSE "Q" \o ToString(j)

\* whether the call prints a table: print_evaluation_table always does,
\* print_advanced_metrics_table when some record has bertscore_f1
PrintsTable ==
    \/ op = "print_evaluation_table"
    \/ /\ op = "print_advanced_metrics_table"
       /\ \E j \in 1..Len(args.results) :
              "bertscore_f1" \in DOMAIN args.results[j]

\* the number of lines of a table's header
HeaderLines == 5

\* C18: for a non-empty results list, print_evaluation_table and (when some
\* record has bertscore_f1) print_advanced_metrics_table print a header, then
\* exactly one row per record in input order, the row of record i labelled
\* query_ids[i] when query_ids is supplied and i < len(query_ids) and Q{i+1}
\* otherwise, then exactly one AVERAGE row after all the rows; for an empty
\* list each prints the placeholder message alone.
C18_TableIsHeaderRowsAverage ==
    op \in {"print_evaluation_table", "print_advanced_metrics_table"} =>
        /\ args.results = <<>> =>
               /\ Len(stdout) = 1
               /\ stdout[1].kind = "placeholder"
        /\ (args.results # <<>> /\ PrintsTable) =>
               LET n == Len(args.results)
                   shown == IF op = "print_evaluation_table"
                            THEN "mrr" ELSE "bertscore_f1"
               IN /\ Len(stdout) = HeaderLines + n + 3
                  /\ [p \in 1..HeaderLines |-> stdout[p].kind]
                         = <<"banner", "title", "rule", "columns", "separator">>
                  /\ LinesOfKind(stdout, "row")
                         = (HeaderLines + 1)..(HeaderLines + n)
                  /\ \A j \in 1..n :
                        /\ stdout[HeaderLines + j].text
                               = ExpectedLabel(args.query_ids, j)
                        /\ stdout[HeaderLines + j].cells[1]
                               = FormatMetric(args.results[j], shown, 4)
                  /\ LinesOfKind(stdout, "average") = {HeaderLines + n + 2}
                  /\ LinesOfKind(stdout, "placeholder") = {}

\* three records with two query ids: the third row is labelled Q3
C18_Witness ==
    /\ op = "print_advanced_metrics_table"
    /\ Len(args.results) = 3
    /\ args.query_ids = Some(<<"Q2", "Q1">>)
    /\ PrintsTable
    /\ [j \in 1..3 |-> stdout[HeaderLines + j].text] = <<"Q2", "Q1", "Q3">>
    /\ stdout[HeaderLines + 5].kind = "average"

(***************************************************************************)
(* Claims about run_complete_evaluation (SpecRun).                         *)
(***************************************************************************)
\* load_models has returned: the query loop is entered
ModelsLoaded == Len(calls) > 0 /\ calls[1].fn = "load_models" /\ calls[1].outcome = "ok"

\* a keyboard interrupt has ended the run
KeyboardInterrupted == \E p \in 1..Len(calls) : calls[p].outcome = "KeyboardInterrupt"

\* the calls made for the queries: all but load_models
QueryCalls == SelectSeq(calls, LAMBDA c : c.fn # "load_models")

\* the attempts: a query is attempted when its retrieval is called
Attempts == SelectSeq(calls, LAMBDA c : c.fn = "similarity_search_with_score")

\* the position in TEST_QUERIES of the query with this id
QueryIndex(query_id) == CHOOSE n \in 1..Len(TEST_QUERIES) : TEST_QUERIES[n].id = query_id

\* the queries are attempted in TEST_QUERIES order, none twice, and the
\* calls of one query are over before the next query's begin
ProcessedInOrder ==
    /\ Len(Attempts) <= Len(TEST_QUERIES)
    /\ \A p \in 1..Len(Attempts) : Attempts[p].query_id = TEST_QUERIES[p].id
    /\ \A p, q \in 1..Len(QueryCalls) :
        p < q => QueryIndex(QueryCalls[p].query_id) <= QueryIndex(QueryCalls[q].query_id)

\* a call of a query that raised an Exception is that query's last call,
\* nothing is appended for the query, and the run goes on: the next call, if
\* there is one, is the retrieval of the next query, and if there is none
\* the run is at (or after) the loop's next step
FailuresSkipOneQuery ==
    \A p \in 1..Len(QueryCalls) :
        QueryCalls[p].outcome = "Exception" =>
            /\ QueryCalls[p].query_id \notin Range(locals.query_ids)
            /\ \A j \in 1..Len(calls) :
                (calls[j].fn = "evaluate_single_query" /\ calls[j].outcome = "ok")
                    => calls[j].query_id # QueryCalls[p].query_id
            /\ p < Len(QueryCalls) =>
                /\ QueryCalls[p + 1].fn = "similarity_search_with_score"
                /\ QueryIndex(QueryCalls[p + 1].query_id)
                       = QueryIndex(QueryCalls[p].query_id) + 1
            /\ p = Len(QueryCalls) =>
                \/ pc = "loop" /\ locals.i = QueryIndex(QueryCalls[p].query_id)
                \/ pc = "retrieve" /\ locals.i = QueryIndex(QueryCalls[p].query_id) + 1
                \/ pc \in {"report", "statistics", "done"}
                   /\ QueryIndex(QueryCalls[p].query_id) = Len(TEST_QUERIES)

\* every query of TEST_QUERIES has been attempted, once
AllAttemptedOnce ==
    /\ Len(Attempts) = Len(TEST_QUERIES)
    /\ \A n \in 1..Len(TEST_QUERIES) : Attempts[n].query_id = TEST_QUERIES[n].id

\* C16 as stated: queries are processed one after another in TEST_QUERIES
\* order; an Exception raised while retrieving, generating or evaluating a
\* query is caught, skips that query alone and the loop continues; when the
\* run is over every query has been attempted exactly once unless a keyboard
\* interrupt occurred.  Violated when load_models raises an Exception: the
\* run is over, no keyboard interrupt occurred and no query was attempted.
C16_Original ==
    /\ ProcessedInOrder
    /\ ModelsLoaded => FailuresSkipOneQuery
    /\ (pc = "done" /\ ~KeyboardInterrupted) => AllAttemptedOnce

\* C16, amended: as C16_Original, for the runs whose load_models returned:
\* once the loop is entered, the run ends with every query attempted exactly
\* once unless a keyboard interrupt occurs.
C16_QueriesInOrderFailuresSkipped ==
    /\ ProcessedInOrder
    /\ ModelsLoaded => FailuresSkipOneQuery
    /\ (pc = "done" /\ ModelsLoaded /\ ~KeyboardInterrupted) => AllAttemptedOnce

\* the run is over, no keyboard interrupt occurred, a call of the first
\* query raised an Exception, the second query was evaluated, and the
\* second query's is the only entry appended
C16_Witness ==
    /\ pc = "done"
    /\ ret.exc = "none"
    /\ ModelsLoaded
    /\ ~KeyboardInterrupted
    /\ \E p \in 1..Len(calls) : /\ calls[p].outcome = "Exception"
                                /\ calls[p].query_id = TEST_QUERIES[1].id
    /\ \E p \in 1..Len(calls) : /\ calls[p].outcome = "ok"
                                /\ calls[p].fn = "evaluate_single_query"
                                /\ calls[p].query_id = TEST_QUERIES[2].id
    /\ locals.query_ids = <<TEST_QUERIES[2].id>>

\* load_models raised an Exception
LoadFailed == Len(calls) > 0 /\ calls[1].fn = "load_models" /\ calls[1].outcome = "Exception"

\* the kinds of the lines of the query loop, the tables, the statistics and
\* the interpretation
RunOutputKinds ==
    {"evaluating", "progress", "result", "error", "warning", "blank", "title",
     "columns", "rule", "separator", "row", "average", "closing", "placeholder",
     "statistics", "interpretation"}

\* the lines run_complete_evaluation printed: stdout without what the command
\* line printed after it
RunOutput ==
    IF op = "__main__"
    THEN SubSeq(stdout, 1, Len(stdout) - Len(MainPrints(ret, args.include_advanced)))
    ELSE stdout

\* C17: when load_models raises an Exception the run is over after the
\* diagnostic: load_models is the only call made (no query is retrieved,
\* generated or evaluated), the output is the banner and the diagnostic, and
\* no line of the loop, of a table, of the statistics or of the
\* interpretation is printed.
C17_LoadFailureAbortsRun ==
    LoadFailed =>
        /\ pc = "done"
        /\ ret.exc = "none"
        /\ Len(calls) = 1
        /\ RunOutput = Banner(args.include_advanced) \o LoadDiagnostic
        /\ \E p \in 1..Len(stdout) : stdout[p].kind = "load_error"
        /\ \A p \in 1..Len(stdout) : stdout[p].kind \notin RunOutputKinds

\* load_models raised an Exception in a run that asked for advanced metrics
C17_Witness ==
    /\ LoadFailed
    /\ args.include_advanced
    /\ pc = "done"

\* the calls of one function that returned, in order
Returns(fn) == SelectSeq(calls, LAMBDA c : c.fn = fn /\ c.outcome = "ok")

\* the value the last call of fn returned
LastReturn(fn) == Returns(fn)[Len(Returns(fn))].value

\* C19: no operation changes what it is given.  Every record of results is
\* the record evaluate_single_query returned for it, at every later point of
\* the run: after the later evaluations, the appends, the tables and
\* aggregate_results, and in the pair the run returns.  When
\* evaluate_single_query (and with it every calculate_* function) has
\* returned, the query, the response, the retrieved documents, the context
\* and the list with the relevance marks are as they were built before the
\* call.
C19_InputsAndRecordsUnchanged ==
    ModelsLoaded =>
        /\ Len(locals.results) <= Len(Returns("evaluate_single_query"))
        /\ \A j \in 1..Len(locals.results) :
            locals.results[j] = Returns("evaluate_single_query")[j].value
        /\ pc \in {"append_result", "append_id"} =>
            /\ locals.query = TEST_QUERIES[locals.i].query
            /\ locals.retrieved_docs = LastReturn("similarity_search_with_score")
            /\ locals.response = LastReturn("query_documents")
            /\ locals.context = ContextOf(LastReturn("similarity_search_with_score"))
            /\ locals.retrieved_with_relevance
                   = WithRelevance(LastReturn("similarity_search_with_score"))
            /\ locals.evaluation = LastReturn("evaluate_single_query")
        /\ (pc = "done" /\ ret.exc = "none") =>
            /\ Len(locals.results) = Len(Returns("evaluate_single_query"))
            /\ ret.val[1] = locals.results

\* the run has returned two records that differ, the first one evaluated
\* before the second, after both tables and aggregate_results
C19_Witness ==
    /\ pc = "done"
    /\ ret.exc = "none"
    /\ ModelsLoaded
    /\ args.include_advanced
    /\ Len(locals.results) >= 2
    /\ locals.results[1] # locals.results[2]
    /\ \E p \in 1..Len(stdout) : stdout[p].kind = "average"

\* the statements of the query loop (lines 50-104)
LoopPoints == {"loop", "retrieve", "generate", "evaluate", "append_result", "append_id"}

\* the loop is over and the run was not interrupted
AfterLoop == pc \in {"report", "statistics"} \/ (pc = "done" /\ ret.exc = "none")

\* the first n entries of query_ids are the ids of the queries whose
\* evaluations produced the first n entries of results
PairedUpTo(n) ==
    /\ n <= Len(Returns("evaluate_single_query"))
    /\ \A j \in 1..n :
        /\ locals.results[j] = Returns("evaluate_single_query")[j].value
        /\ locals.query_ids[j] = Returns("evaluate_single_query")[j].query_id

\* the ids of TEST_QUERIES, in order
TestQueryIds == [n \in 1..Len(TEST_QUERIES) |-> TEST_QUERIES[n].id]

\* the ids, in TEST_QUERIES order, of the queries whose processing raised no
\* exception
IdsWithoutException ==
    SelectSeq(TestQueryIds,
              LAMBDA id : \A p \in 1..Len(QueryCalls) :
                              QueryCalls[p].query_id = id
                                  => QueryCalls[p].outcome = "ok")

\* after the loop: one entry for each query that raised no exception, in
\* order
OneEntryPerSuccess ==
    /\ locals.query_ids = IdsWithoutException
    /\ Len(locals.results) = Len(locals.query_ids)
    /\ PairedUpTo(Len(locals.results))
    /\ Len(locals.results) <= Len(TEST_QUERIES)

\* C20 as stated: at every point of the query loop results and query_ids
\* have the same length and query_ids[i] is the id of the query that
\* produced results[i]; after the loop they hold one entry, in TEST_QUERIES
\* order, for each query that raised no exception.  Violated between the
\* two appends (line 89 done, line 90 not yet): results is one entry longer.
C20_Original ==
    ModelsLoaded =>
        /\ pc \in LoopPoints =>
            /\ Len(locals.results) = Len(locals.query_ids)
            /\ PairedUpTo(Len(locals.results))
        /\ AfterLoop => OneEntryPerSuccess

\* C20, amended: at every point of the query loop but the one between the
\* two appends, results and query_ids have the same length and query_ids[i]
\* is the id of the query that produced results[i]; between the appends
\* results holds one more entry, the record of the current query, whose id
\* is appended next; after the loop they hold one entry, in TEST_QUERIES
\* order, for each query that raised no exception, so that
\* len(results) <= len(TEST_QUERIES).
C20_ResultsAndIdsPairedBetweenIterations ==
    ModelsLoaded =>
        /\ pc \in LoopPoints \ {"append_id"} =>
            /\ Len(locals.results) = Len(locals.query_ids)
            /\ PairedUpTo(Len(locals.results))
        /\ pc = "append_id" =>
            /\ Len(locals.results) = Len(locals.query_ids) + 1
            /\ PairedUpTo(Len(locals.query_ids))
            /\ locals.results[Len(locals.results)] = locals.evaluation
            /\ Returns("evaluate_single_query")[Len(locals.results)].query_id
                   = locals.query_id
        /\ AfterLoop => OneEntryPerSuccess

\* the loop is over: the first query raised an Exception, the second and the
\* third have their entries
C20_Witness ==
    /\ AfterLoop
    /\ ModelsLoaded
    /\ \E p \in 1..Len(QueryCalls) : /\ QueryCalls[p].query_id = TEST_QUERIES[1].id
                                     /\ QueryCalls[p].outcome = "Exception"
    /\ Len(locals.results) = 2
    /\ locals.query_ids = <<TEST_QUERIES[2].id, TEST_QUERIES[3].id>>

\* the positions of the records that carry the key metric
Carriers(results, metric) ==
    { j \in 1..Len(results) : metric \in DOMAIN results[j] }

\* the positions among J whose value of metric is zero
ZeroAt(results, metric, J) ==
    { j \in J : AsFloat(metric, results[j][metric])[1] = 0 }

\* whether no record carries a value of metric below zero
NonNegative(results, metric) ==
    \A j \in Carriers(results, metric) : AsFloat(metric, results[j][metric])[1] >= 0

\* C21: for a record list whose values of a metric are all non-negative,
\* whenever aggregate_results emits avg_<metric> it is at least the mean of
\* the metric over all the records that carry the key, zeros included, and
\* it equals that mean exactly when none of those records has the value
\* zero.
C21_AverageAtLeastMeanOverCarriers ==
    (op = "aggregate_results" /\ Returned(ret)) =>
        \A metric \in StandardMetricNames \cup AdvancedMetricNames :
            (("avg_" \o metric) \in DOMAIN ret.val /\ NonNegative(args.results, metric)) =>
                LET J == Carriers(args.results, metric)
                    n == Cardinality(J)
                    avg == ret.val["avg_" \o metric]
                    all == RatDivInt(SumOver(args.results, metric, J), n)
                IN /\ n >= 1
                   /\ RatLe(all, avg)
                   /\ (avg = all) <=> (ZeroAt(args.results, metric, J) = {})

\* three records carry faithfulness 6/7, 1/2 and 0.0: the average emitted is
\* 19/28, above the mean 19/42 over the three
C21_Witness ==
    /\ op = "aggregate_results"
    /\ Returned(ret)
    /\ args.results = <<CoreGood, CoreFair, CoreZero>>
    /\ ret.val["avg_faithfulness"] = Frac(19, 28)
    /\ RatLt(RatDivInt(SumOver(args.results, "faithfulness", {1, 2, 3}), 3),
             ret.val["avg_faithfulness"])

\* the words the filter of the call is applied to: those of the lower-cased
\* response of calculate_faithfulness, those of the lower-cased query of
\* calculate_relevancy
FilteredWords ==
    IF op = "calculate_faithfulness" THEN findall_words(lower(args.response))
    ELSE IF op = "calculate_relevancy" THEN findall_words(lower(args.query))
    ELSE <<>>

\* whether the content-word filter with these stop words drops the word w
Drops(w, stop_words) == ContentWords(w, stop_words) = <<>>

\* C22 as stated: every word the filter of calculate_faithfulness drops is
\* dropped by the filter of calculate_relevancy too.  Violated by "this": a
\* stop word of calculate_faithfulness that calculate_relevancy keeps.
C22_Original ==
    \A p \in 1..Len(FilteredWords) :
        Drops(FilteredWords[p], faithfulness_stop_words)
            => Drops(FilteredWords[p], relevancy_stop_words)

\* the stop words of calculate_faithfulness longer than 3 letters that are
\* no stop words of calculate_relevancy
FaithfulnessOnlyWords ==
    {"have", "does", "will", "would", "could", "should", "might", "this",
     "that", "these", "those"}

\* the stop words of calculate_relevancy longer than 3 letters that are no
\* stop words of calculate_faithfulness
RelevancyOnlyWords ==
    {"what", "when", "where", "which", "explain", "describe", "discuss",
     "provide"}

\* C22, amended: the two filters drop the same words (the twenty stop words
\* they share and every word of at most 3 letters) with these exceptions:
\* calculate_faithfulness alone drops have, does, will, would, could,
\* should, might, this, that, these, those, and calculate_relevancy alone
\* drops what, when, where, which, explain, describe, discuss, provide.
C22_FiltersDifferBothWays ==
    \A p \in 1..Len(FilteredWords) :
        LET w == FilteredWords[p]
        IN /\ (Drops(w, faithfulness_stop_words) /\ ~Drops(w, relevancy_stop_words))
                <=> ToStr(w) \in FaithfulnessOnlyWords
           /\ (Drops(w, relevancy_stop_words) /\ ~Drops(w, faithfulness_stop_words))
                <=> ToStr(w) \in RelevancyOnlyWords

\* the query "this" and the response "this cat": calculate_relevancy keeps
\* the term "this", finds it, and returns 1.0 * 0.7 instead of the 0.5 of a
\* query without content words
C22_Witness ==
    /\ op = "calculate_relevancy"
    /\ args.query = W_this
    /\ args.response = T_ThisCat
    /\ ret = Return(Frac(7, 10))
    /\ Drops(W_this, faithfulness_stop_words)

\* whether the call is a print_advanced_metrics_table whose list passes the
\* two guards: it is not empty and some record has bertscore_f1
PrintsAdvancedTable ==
    /\ op = "print_advanced_metrics_table"
    /\ args.results # <<>>
    /\ has_advanced(args.results)

\* the AVERAGE line printed
AverageLine == stdout[CHOOSE p \in 1..Len(stdout) : stdout[p].kind = "average"]

\* C23: for every record list that passes the guards of
\* print_advanced_metrics_table, the averages its AVERAGE row shows for
\* bertscore_f1, rouge_l_f1, bleu, faithfulness and relevancy are
\* aggregate_results(results).get('avg_<metric>', 0) of the same list.
\* Violated by a list whose first record lacks bertscore_f1 while a later
\* one has it: the row shows the mean of the positive values, and
\* aggregate_results has no avg_bertscore_f1.
C23_AdvancedAverageRowIsAggregateResults ==
    PrintsAdvancedTable =>
        \A c \in 1..Len(AdvancedTableMetrics) :
            AverageLine.cells[c]
                = FormatFixed(Get(aggregate_results(args.results),
                                  "avg_" \o AdvancedTableMetrics[c], Zero),
                              ScoreDigits)

\* the table of a list whose first record has the core metrics only and
\* whose second has bertscore_f1 2/3: the AVERAGE row shows 0.6667 where
\* aggregate_results has no avg_bertscore_f1
C23_Witness ==
    /\ PrintsAdvancedTable
    /\ args.results = <<CoreGood, CoreGood @@ AdvancedGood>>
    /\ AverageLine.cells[1] = FormatFixed(Frac(2, 3), ScoreDigits)
    /\ "avg_bertscore_f1" \notin DOMAIN aggregate_results(args.results)

\* the calls of the three scorers
ScorerOps == {"calculate_bertscore", "calculate_rouge_l", "calculate_bleu_score"}

\* the score a scorer returned: the F1 of the mapping, or the BLEU
ScoreOf(scorer, val) ==
    IF scorer = "calculate_bertscore" THEN val.bertscore_f1
    ELSE IF scorer = "calculate_rouge_l" THEN val.rouge_l_f1
    ELSE val

\* the number of the calls so far, this one included, at which the library
\* failed
FailedCalls ==
    Cardinality({ p \in 1..Len(calls) : calls[p].lib.kind # "ok" })
    + (IF args.lib.kind # "ok" THEN 1 ELSE 0)

\* C24: the scorers keep no state between calls.  Every call attempts the
\* import: each call at which the library fails prints its warning, and a
\* call at which the library is available returns the library's score,
\* whether or not an earlier call fell back to zero.
C24_ScorersKeepNoState ==
    op \in ScorerOps =>
        /\ Returned(ret)
        /\ args.lib.kind = "ok" => ScoreOf(op, ret.val) = args.lib.f
        /\ args.lib.kind # "ok" => ScoreOf(op, ret.val) = <<0, 1>>
        /\ Cardinality(LinesOfKind(stdout, "warning")) = FailedCalls

\* calculate_bertscore returns F1 2/3 at a call made after a call at which
\* bert-score was not installed and that returned 0.0
C24_Witness ==
    /\ op = "calculate_bertscore"
    /\ Len(calls) = 1
    /\ calls[1].lib.kind = "ImportError"
    /\ calls[1].val.bertscore_f1 = <<0, 1>>
    /\ args.lib.kind = "ok"
    /\ ret.val.bertscore_f1 = Frac(2, 3)
    /\ Len(stdout) = 1

\* whether an item counts as relevant under key: it has the key, set
Flagged(item, key) == key \in DOMAIN item /\ item[key] = TRUE

\* the ranks of the items that count as relevant under key
FlaggedRanks(results, key) ==
    { r \in 1..Len(results) : Flagged(results[r], key) }

\* len(results[:k])
PrefixLen(results, k) ==
    IF k >= 0 THEN (IF k < Len(results) THEN k ELSE Len(results))
    ELSE (IF Len(results) + k > 0 THEN Len(results) + k ELSE 0)

\* C25: calculate_mrr, calculate_hit_at_k and calculate_precision_at_k read
\* relevance under the relevant_key they are given ("is_relevant" when
\* evaluate_single_query calls them without one), and an item without that
\* key counts as not relevant and raises no error: the value is the one
\* decided by the items that have the key set.
C25_RelevanceUnderKeyMissingIsNotRelevant ==
    /\ op = "calculate_mrr" =>
        LET R == FlaggedRanks(args.results, args.relevant_key)
        IN /\ Returned(ret)
           /\ R = {} => ret.val = <<0, 1>>
           /\ R # {} => \E r \in R : (\A q \in R : r <= q) /\ ret.val = <<1, r>>
    /\ op = "calculate_hit_at_k" =>
        LET R == FlaggedRanks(args.results, args.relevant_key)
            n == PrefixLen(args.results, args.k)
        IN /\ Returned(ret)
           /\ ret.val = IF \E r \in R : r <= n THEN <<1, 1>> ELSE <<0, 1>>
    /\ op = "calculate_precision_at_k" =>
        LET R == FlaggedRanks(args.results, args.relevant_key)
            n == PrefixLen(args.results, args.k)
        IN /\ ret.exc \in {"none", "ZeroDivisionError"}
           /\ n > 0 =>
               /\ Returned(ret)
               /\ ret.val[1] * n = Cardinality({ r \in R : r <= n }) * ret.val[2]
    /\ (op = "evaluate_single_query" /\ Returned(ret)) =>
        LET R == FlaggedRanks(args.retrieved_docs, "is_relevant")
        IN /\ R = {} => ret.val["mrr"] = <<0, 1>>
           /\ R # {} => \E r \in R : (\A q \in R : r <= q) /\ ret.val["mrr"] = <<1, r>>

\* calculate_mrr under the key "label" of a list whose first item has
\* is_relevant set and no label, whose second has neither key and whose
\* third has label set: 1/3
C25_Witness ==
    /\ op = "calculate_mrr"
    /\ args.relevant_key = "label"
    /\ args.results = <<[content |-> "doc", is_relevant |-> TRUE],
                        [content |-> "doc"],
                        [content |-> "doc", label |-> TRUE]>>
    /\ ret = Return(<<1, 3>>)

\* C26: calculate_precision_at_k never raises and returns a value in [0, 1]
\* for every results list and every integer k, negative k included.
\* Violated by a non-empty list and a negative k that leaves results[:k]
\* empty: relevant_count / len(top_k) divides by zero.
C26_PrecisionNeverRaises ==
    op = "calculate_precision_at_k" =>
        /\ Returned(ret)
        /\ ret.val[2] > 0
        /\ 0 <= ret.val[1] /\ ret.val[1] <= ret.val[2]

\* calculate_precision_at_k([relevant], -1): results[:-1] is empty
C26_Witness ==
    /\ op = "calculate_precision_at_k"
    /\ args.results = <<Relevant>>
    /\ args.k = -1
    /\ ret = Raise("ZeroDivisionError")

\* C27: for every results list and every k >= 1, calculate_hit_at_k is 1.0
\* if and only if calculate_mrr of the same list (under the same key) is at
\* least 1/k; hence in every record evaluate_single_query returns,
\* hit@5 <= hit@10, hit@5 is 1.0 iff mrr >= 1/5, and hit@10 is 1.0 iff
\* mrr >= 1/10.
C27_HitIffMrrAtLeastReciprocalOfK ==
    /\ (op = "calculate_hit_at_k" /\ args.k >= 1) =>
        /\ Returned(ret)
        /\ ret.val \in {<<0, 1>>, <<1, 1>>}
        /\ (ret.val = <<1, 1>>)
              <=> RatLe(<<1, args.k>>, calculate_mrr(args.results, args.relevant_key))
    /\ (op = "evaluate_single_query" /\ Returned(ret)) =>
        /\ RatLe(ret.val["hit@5"], ret.val["hit@10"])
        /\ (ret.val["hit@5"] = <<1, 1>>) <=> RatLe(<<1, 5>>, ret.val["mrr"])
        /\ (ret.val["hit@10"] = <<1, 1>>) <=> RatLe(<<1, 10>>, ret.val["mrr"])

\* a record whose first relevant document has rank 6: mrr 1/6, no hit in
\* the first 5, a hit in the first 10
C27_Witness ==
    /\ op = "evaluate_single_query"
    /\ Returned(ret)
    /\ ret.val["mrr"] = <<1, 6>>
    /\ ret.val["hit@5"] = <<0, 1>>
    /\ ret.val["hit@10"] = <<1, 1>>

\* the two hit metrics of a record
HitMetrics == {"hit@10", "hit@5"}

\* whether every hit value the records carry is 0.0 or 1.0, as in the
\* records evaluate_single_query builds
HitsAreZeroOrOne(results) ==
    \A j \in 1..Len(results) : \A metric \in HitMetrics :
        metric \in DOMAIN results[j] => results[j][metric] \in {<<0, 1>>, <<1, 1>>}

\* C28: the hit@10 and hit@5 of a record evaluate_single_query returns are
\* 0.0 or 1.0, and for a list of such records, whenever aggregate_results
\* emits avg_hit@10 or avg_hit@5 the value is exactly 1.0 and the std_ next
\* to it exactly 0, whatever share of the records has a hit: the misses are
\* not aggregated.
C28_EmittedHitAverageIsOne ==
    /\ (op = "evaluate_single_query" /\ Returned(ret)) =>
        \A metric \in HitMetrics : ret.val[metric] \in {<<0, 1>>, <<1, 1>>}
    /\ (op = "aggregate_results" /\ Returned(ret) /\ HitsAreZeroOrOne(args.results)) =>
        \A metric \in HitMetrics :
            ("avg_" \o metric) \in DOMAIN ret.val =>
                /\ ret.val["avg_" \o metric] = <<1, 1>>
                /\ ret.val["std_" \o metric] = Sqrt(<<0, 1>>)

\* three records of which one has a hit in the first 5: avg_hit@5 is 1.0
C28_Witness ==
    /\ op = "aggregate_results"
    /\ args.results = <<CoreGood, CoreFair, CoreZero>>
    /\ Returned(ret)
    /\ ret.val["avg_hit@5"] = <<1, 1>>
    /\ ret.val["std_hit@5"] = Sqrt(<<0, 1>>)
    /\ Cardinality({ j \in 1..3 : args.results[j]["hit@5"] = <<1, 1>> }) = 1

\* the documents the retrieval returned for the query of the call at
\* position p of calls
RetrievedFor(p) ==
    LET q == CHOOSE q \in 1..p :
                 /\ calls[q].fn = "similarity_search_with_score"
                 /\ calls[q].query_id = calls[p].query_id
    IN calls[q].value

\* the positions of the evaluations that returned a record
Evaluated ==
    { p \in 1..Len(calls) :
        calls[p].fn = "evaluate_single_query" /\ calls[p].outcome = "ok" }

\* the three retrieval metrics of a record
RankMetrics == {"mrr", "hit@5", "hit@10"}

ReachedFailedHandler ==
    /\ op = "__main__"
    /\ stdout[Len(stdout)].kind = "failed"

\* C30: whenever run_complete_evaluation has returned without raising, what
\* it returned is the pair (results, aggregate_results(results)), and the
\* command line, unpacking it, does not print 'Evaluation failed'; this
\* includes a run whose model loading failed and a run that skipped every
\* query.
C30_ReturnsPairOnEveryPath ==
    (pc = "done" /\ ret.exc = "none") =>
        /\ ret.val # None
        /\ ret.val = <<locals.results, aggregate_results(locals.results)>>
        /\ ~ReachedFailedHandler

\* model loading failed: run_complete_evaluation returned None, and the
\* command line printed 'Evaluation failed' for the TypeError of unpacking it
C30_Witness ==
    /\ pc = "done"
    /\ LoadFailed
    /\ ret = Return(None)
    /\ ReachedFailedHandler
    /\ stdout[Len(stdout)].cells = <<"TypeError">>
====
